---------------------------- MODULE Spec2Model ----------------------------
(***************************************************************************)
(* A model of bapsf_motion: the Motor protocol driver                      *)
(* (src/src/bapsf_motion/controllers/motor.py), the exclusions of the      *)
(* motion builder (motion_builder/exclusions/base.py,                      *)
(* motion_list/exclusions/lapd.py) and its grid layers                     *)
(* (motion_builder/layers/regular_grid.py).                                *)
(*                                                                         *)
(* The groups of state that are modelled:                                  *)
(*   - the status dictionary, its decode from a status reply and the       *)
(*     status_changed notification (retrieve_motor_status, update_status); *)
(*   - the framing of a reply by Motor.recv;                               *)
(*   - the socket shared by a foreground command and the heartbeat task    *)
(*     (_send_raw_command, connect, _heartbeat, stop_running);             *)
(*   - the class-level dicts that all Motor instances use;                 *)
(*   - the shared dataset with its exclusions and the global mask;         *)
(*   - the construction of a grid layer;                                   *)
(*   - the construction of a LaPD exclusion from its arguments             *)
(*     (LaPDXYExclusion._validate_inputs);                                 *)
(*   - the validation of a run configuration (actors/manager_.py);         *)
(*   - the unit conversions and send_command of an Axis (actors/axis_.py); *)
(*   - the LaPD XY coordinate transform (transform/lapd.py), in exact      *)
(*     rational arithmetic;                                                *)
(*   - the command table of Motor and the lookups of send_command.         *)
(***************************************************************************)
EXTENDS Integers, Sequences, FiniteSets, TLC

VARIABLES
    status,      \* Motor._status: a dict, field name -> value
    ppc,         \* position inside Motor.retrieve_motor_status
    rtn,         \* the payload of the reply to "RS" in the current poll
    lstatus,     \* the local dict _status of retrieve_motor_status
    alarmRtn,    \* the 4 digits of the reply to "AL" of the last alarm lookup
    pollEmits,   \* status_changed.emit calls made by the current poll
    polls,       \* polls started so far
    lastUpdate,  \* the last update_status call: what it saw and what it emitted
    stream,      \* the bytes the socket delivers to one call of Motor.recv
    rpos,        \* how many bytes of stream socket.recv has handed over
    msg,         \* the local bytes object msg of Motor.recv
    rstate,      \* position inside Motor.recv
    proc,        \* per caller of _send_raw_command: where it is and what it did
    sock,        \* the connection behind Motor.socket: "open" or "broken"
    wire,        \* replies waiting in the socket, each tagged with its requester
    hbStep,      \* which command of its status poll the heartbeat is at
    drops,       \* connection losses so far
    calls,       \* foreground commands issued so far
    beats,       \* heartbeat polls started so far
    misdelivered, \* some reply was read by a caller that had not requested it
    heartrate,   \* the local heartrate of Motor._heartbeat, in tenths of a second
    slept,       \* the last `await asyncio.sleep(heartrate)` of the heartbeat
    tasks,       \* Motor.tasks: the tasks created on the event loop
    cancelled,   \* task.cancel() has been called on the heartbeat task
    loopStop,    \* self._loop.stop has been handed to the event loop
    _config,     \* the dict Motor._config of the class body
    _settings,   \* the dict Motor._settings of the class body
    motors,      \* the Motor instances constructed, with what each was given
    sockets,     \* the sockets created by Motor.connect: the address of each
    sent,        \* the last socket.send: which instance, socket and address
    ds,          \* the shared dataset: entry 0 is "mask", entry n is "mask_ex<n>"
    exs,         \* the exclusion objects constructed on the dataset
    pending,     \* exclusions regenerated and not yet merged into the mask
    exCalls,     \* input changes and regenerations of exclusions so far
    exLast,      \* the last call on an exclusion and whether it raised
    layer,       \* a grid layer: its arguments, what became of it, its points
    lapd,        \* a LaPD exclusion: its arguments, inputs and exclusions
    manager,     \* a run configuration: its motion groups, as given and kept
    axis,        \* an Axis: its two constants, the call made on it, its outcome
    transform,   \* a LaPD XY transform: its inputs, a point and its images
    command      \* a Motor.send_command call: its arguments and its outcome

statusVars == <<status, ppc, rtn, lstatus, alarmRtn, pollEmits, polls, lastUpdate>>

\* the status variables a socket-level step leaves alone
pollVars == <<ppc, rtn, lstatus, alarmRtn, pollEmits, polls>>

recvVars == <<stream, rpos, msg, rstate>>

\* the heartbeat's rate, and what Motor.stop_running acts on
rateVars == <<heartrate, slept>>
stopVars == <<tasks, cancelled, loopStop>>

sockVars ==
    <<proc, sock, wire, hbStep, drops, calls, beats, misdelivered,
      rateVars, stopVars>>

\* the one Motor instance whose status, replies and socket are followed
motorVars == <<statusVars, recvVars, sockVars>>

\* the class-level dicts of Motor and the instances that use them
ownVars == <<_config, _settings, motors, sockets, sent>>

\* the motion builder's dataset and its exclusions
exVars == <<ds, exs, pending, exCalls, exLast>>

\* the motion layer that is constructed
gridVars == <<layer>>

\* the LaPD exclusion that is constructed from its keyword arguments
lapdVars == <<lapd>>

\* the run configuration that RunManagerConfig validates
managerVars == <<manager>>

\* the Axis on which a command is sent or a quantity is converted
axisVars == <<axis>>

\* the coordinate transform that takes a point to the drive and back
transformVars == <<transform>>

\* the objects that are followed through one construction or one call
\* one call of Motor.send_command, followed through the command table
commandVars == <<command>>

otherVars == <<lapdVars, managerVars, axisVars, transformVars, commandVars>>

\* everything but the followed Motor instance
outerVars == <<ownVars, exVars, gridVars, otherVars>>

vars == <<motorVars, outerVars>>

-----------------------------------------------------------------------------
(* Python values.  A dict value is None, a bool, an int or a str; values of  *)
(* different types are never equal.                                          *)

None == <<"None">>
PyBool(b) == <<"bool", b>>
PyInt(i) == <<"int", i>>
PyStr(s) == <<"str", s>>

True == PyBool(TRUE)
False == PyBool(FALSE)

-----------------------------------------------------------------------------
(* Bounds of the model.                                                      *)

MaxStatusLen == 3   \* longest status reply payload that is enumerated
MaxPolls == 2       \* status polls in one behaviour
MaxJunk == 1        \* bytes left in the socket ahead of a reply's header
MaxPayload == 2     \* payload bytes of a reply
MaxDrops == 2       \* connection losses in one behaviour
MaxCommands == 1    \* foreground commands in one behaviour
MaxBeats == 1       \* heartbeat polls in one behaviour
MaxMotors == 3      \* Motor instances constructed in one behaviour
MaxExclusions == 2  \* exclusions constructed on the dataset
MaxExCalls == 2     \* input changes and regenerations of exclusions
MaxNpoints == 2     \* largest number of points along one axis of a grid
MaxGroups == 3      \* motion groups of a run configuration
MaxConversions == 2 \* conversions of one quantity, one after the other

-----------------------------------------------------------------------------
(* The status dictionary.                                                    *)

FlagKeys ==
    {"alarm", "enabled", "fault", "moving", "homing", "jogging",
     "motion_in_progress", "in_position", "stopping", "waiting"}

\* Motor._default_status
DefaultStatus ==
    [k \in FlagKeys \cup {"connected", "position"} |->
        IF k = "connected" THEN False ELSE None]

\* {**old_status, **values}
Merge(old, values) ==
    [k \in DOMAIN old \cup DOMAIN values |->
        IF k \in DOMAIN values THEN values[k] ELSE old[k]]

\* the dict `changed` that update_status builds by walking new_status
Changed(old, new) ==
    {key \in DOMAIN new :
        key \notin DOMAIN old \/ (key \in DOMAIN old /\ old[key] /= new[key])}

EmitAlways(changed) == 1

\* `if changed: self.status_changed.emit(True)`: the number of emit calls
EmitCount(changed) == IF changed /= {} THEN 1 ELSE 0

\* the dict `changed` itself: every changed key with its new value
ChangedDict(old, new) == [key \in Changed(old, new) |-> new[key]]

\* the argument of `self.status_changed.emit(True)`
EmitPayload(changed) == True

\* SimpleSignal.emit(payload): what each handler is called with, in order
SignalEmit(count, payload) == [i \in 1..count |-> payload]

\* Motor.status while the handlers run: `self._status = new_status` is the
\* statement after `self.status_changed.emit(True)`
StatusAtEmit(old_status, new_status) == old_status

\* what each handler reads from Motor.status when SimpleSignal.emit calls it
HandlerReads(count, at_emit) == [i \in 1..count |-> at_emit]

\* Motor.update_status(**values)
UpdateStatus(values) ==
    LET old_status == status
        new_status == Merge(old_status, values)
        changed == ChangedDict(old_status, new_status)
        n == EmitCount(DOMAIN changed)
    IN  /\ status' = new_status
        /\ lastUpdate' = [called |-> TRUE, old |-> old_status,
                          values |-> values, emits |-> n,
                          changed |-> changed,
                          received |-> SignalEmit(n, EmitPayload(changed)),
                          seen |-> HandlerReads(
                              n, StatusAtEmit(old_status, new_status))]

-----------------------------------------------------------------------------
(* Replies of the controller.                                                *)

\* the character class of _commands["request_status"]["recv"]
StatusLetters == {"A", "D", "E", "F", "H", "J", "M", "P", "R", "S", "T", "W"}

\* a character that is not in the letter table
OtherChars == {"X"}

\* every payload of up to n characters that may follow "RS="
StatusReplies(n) ==
    UNION {[1..k -> StatusLetters \cup OtherChars] : k \in 0..n}

\* the payloads the repeated polls draw from
PollLetters == {"A", "R", "F"}
PollReplies == UNION {[1..k -> PollLetters] : k \in 1..2}

\* integer positions the controller reports in "IP=<n>"
Positions == {-2, 3}

\* the digits of "AL=<dddd>": no alarm text, one code, two codes
AlarmReplies == {<<0, 0, 0, 0>>, <<0, 0, 0, 4>>, <<1, 0, 2, 0>>}

\* the keys of Motor._alarm_codes
AlarmCodes == {1, 2, 4, 8, 10, 20, 40, 80, 100, 400, 800, 1000, 4000}

MatchAnyLetters(reply) == Len(reply) >= 1

\* recv_pattern.fullmatch(recv_str) of "request_status" finds a match
MatchStatus(reply) ==
    /\ Len(reply) >= 1
    /\ \A i \in 1..Len(reply) : reply[i] \in StatusLetters

-----------------------------------------------------------------------------
(* Motor.retrieve_motor_status: the decode of the status letters.            *)

\* the "null status" dict
NullStatus == [k \in FlagKeys |-> False]

DecodeLetterKeepEnabled(st, letter) ==
    IF letter = "A" THEN [st EXCEPT !["alarm"] = True]
    ELSE IF letter = "R" THEN [st EXCEPT !["enabled"] = True]
    ELSE IF letter = "E" THEN [st EXCEPT !["fault"] = True]
    ELSE IF letter = "F" THEN [st EXCEPT !["moving"] = True]
    ELSE IF letter = "H" THEN [st EXCEPT !["homing"] = True]
    ELSE IF letter = "J" THEN [st EXCEPT !["jogging"] = True]
    ELSE IF letter = "M" THEN [st EXCEPT !["motion_in_progress"] = True]
    ELSE IF letter = "P" THEN [st EXCEPT !["in_position"] = True]
    ELSE IF letter = "S" THEN [st EXCEPT !["stopping"] = True]
    ELSE IF letter \in {"T", "W"} THEN [st EXCEPT !["waiting"] = True]
    ELSE st

DecodeLetterSwapFM(st, letter) ==
    IF letter = "A" THEN [st EXCEPT !["alarm"] = True]
    ELSE IF letter \in {"D", "R"} THEN
        [st EXCEPT !["enabled"] = IF letter = "R" THEN True ELSE False]
    ELSE IF letter = "E" THEN [st EXCEPT !["fault"] = True]
    ELSE IF letter = "F" THEN [st EXCEPT !["motion_in_progress"] = True]
    ELSE IF letter = "H" THEN [st EXCEPT !["homing"] = True]
    ELSE IF letter = "J" THEN [st EXCEPT !["jogging"] = True]
    ELSE IF letter = "M" THEN [st EXCEPT !["moving"] = True]
    ELSE IF letter = "P" THEN [st EXCEPT !["in_position"] = True]
    ELSE IF letter = "S" THEN [st EXCEPT !["stopping"] = True]
    ELSE IF letter \in {"T", "W"} THEN [st EXCEPT !["waiting"] = True]
    ELSE st

\* one pass of the body of `for letter in _rtn:`
DecodeLetter(st, letter) ==
    IF letter = "A" THEN [st EXCEPT !["alarm"] = True]
    ELSE IF letter \in {"D", "R"} THEN
        [st EXCEPT !["enabled"] = IF letter = "R" THEN True ELSE False]
    ELSE IF letter = "E" THEN [st EXCEPT !["fault"] = True]
    ELSE IF letter = "F" THEN [st EXCEPT !["moving"] = True]
    ELSE IF letter = "H" THEN [st EXCEPT !["homing"] = True]
    ELSE IF letter = "J" THEN [st EXCEPT !["jogging"] = True]
    ELSE IF letter = "M" THEN [st EXCEPT !["motion_in_progress"] = True]
    ELSE IF letter = "P" THEN [st EXCEPT !["in_position"] = True]
    ELSE IF letter = "S" THEN [st EXCEPT !["stopping"] = True]
    ELSE IF letter \in {"T", "W"} THEN [st EXCEPT !["waiting"] = True]
    ELSE st

RECURSIVE DecodeStatus(_, _)
\* the loop `for letter in _rtn:` started on the dict st
DecodeStatus(st, s) ==
    IF s = <<>> THEN st
    ELSE DecodeStatus(DecodeLetter(st, Head(s)), Tail(s))

-----------------------------------------------------------------------------
(* Motor.retrieve_motor_alarm: the decode of the alarm digits.               *)

\* codes.append(integer * 10**(3-i)), i counted from 0
AlarmCodeAt(digits, i) ==
    digits[i] * (IF i = 1 THEN 1000 ELSE IF i = 2 THEN 100
                 ELSE IF i = 3 THEN 10 ELSE 1)

\* the codes whose text is joined into alarm_message, in order
AlarmMessage(digits) ==
    SelectSeq([i \in 1..4 |-> AlarmCodeAt(digits, i)],
              LAMBDA code : code \in AlarmCodes)

-----------------------------------------------------------------------------
(* Motor.retrieve_motor_status, one action per device round trip.            *)

\* send_command("request_status") and the decode loop
PollRequestStatus(replies, maxPolls) ==
    /\ ppc \in {"idle", "done", "error"}
    /\ polls < maxPolls
    /\ polls' = polls + 1
    /\ pollEmits' = 0
    /\ \E reply \in replies :
        /\ rtn' = reply
        /\ IF MatchStatus(reply)
           THEN /\ lstatus' = DecodeStatus(NullStatus, reply)
                /\ ppc' = "position"
           ELSE \* fullmatch returns None: .group raises AttributeError
                /\ lstatus' = lstatus
                /\ ppc' = "error"
    /\ UNCHANGED <<status, alarmRtn, lastUpdate, recvVars, sockVars>>
    /\ UNCHANGED outerVars

\* pos = self.send_command("get_position"); _status["position"] = pos
PollGetPosition ==
    /\ ppc = "position"
    /\ \E pos \in Positions :
        lstatus' = Merge(lstatus, [position |-> PyInt(pos)])
    /\ ppc' = IF lstatus["alarm"] = True THEN "alarm" ELSE "update"
    /\ UNCHANGED <<status, rtn, alarmRtn, pollEmits, polls, lastUpdate>>
    /\ UNCHANGED <<recvVars, sockVars>>
    /\ UNCHANGED outerVars

\* _status["alarm_message"] = self.retrieve_motor_alarm(defer_status_update)
AlarmLookup(defer_status_update) ==
    /\ ppc = "alarm"
    /\ \E digits \in AlarmReplies :
        LET alarm_message == AlarmMessage(digits)
        IN  /\ alarmRtn' = digits
            /\ lstatus' = Merge(lstatus, [alarm_message |-> PyStr(alarm_message)])
            /\ IF ~defer_status_update /\ alarm_message /= <<>>
               THEN /\ UpdateStatus([alarm_message |-> PyStr(alarm_message)])
                    /\ pollEmits' = pollEmits + lastUpdate'.emits
               ELSE UNCHANGED <<status, pollEmits, lastUpdate>>
    /\ ppc' = "update"
    /\ UNCHANGED <<rtn, polls, recvVars, sockVars>>
    /\ UNCHANGED outerVars

PollAlarmUndeferred == AlarmLookup(FALSE)

\* the alarm lookup of retrieve_motor_status
PollAlarm == AlarmLookup(TRUE)

\* self.update_status(**_status)
PollUpdate ==
    /\ ppc = "update"
    /\ UpdateStatus(lstatus)
    /\ pollEmits' = pollEmits + lastUpdate'.emits
    /\ ppc' = "done"
    /\ UNCHANGED <<rtn, lstatus, alarmRtn, polls, recvVars, sockVars>>
    /\ UNCHANGED outerVars

-----------------------------------------------------------------------------
(* Other callers of update_status, running between the steps of a poll.      *)

\* the property Motor.position
GetPosition ==
    /\ \E pos \in Positions : UpdateStatus([position |-> PyInt(pos)])
    /\ UNCHANGED <<pollVars, recvVars, sockVars>>
    /\ UNCHANGED outerVars

\* Motor.retrieve_motor_alarm() called on its own
RetrieveMotorAlarm ==
    /\ \E digits \in AlarmReplies :
        /\ AlarmMessage(digits) /= <<>>
        /\ UpdateStatus([alarm_message |-> PyStr(AlarmMessage(digits))])
    /\ UNCHANGED <<pollVars, recvVars, sockVars>>
    /\ UNCHANGED outerVars

-----------------------------------------------------------------------------
(* Motor.recv: the framing of one reply.                                     *)

\* socket.recv(16)
RecvSize == 16

_header == <<0, 7>>
_eom == <<13>>

\* what may sit in the socket ahead of a header: the tail of an earlier reply
JunkBytes == {53, 13}

\* ASCII text of a reply: "I", "="
PayloadBytes == {73, 61}

SeqsUpTo(S, n) == UNION {[1..k -> S] : k \in 0..n}

\* junk, header, payload, and the end of message unless the reply stalls
Streams ==
    {junk \o _header \o payload \o end :
        junk \in SeqsUpTo(JunkBytes, MaxJunk),
        payload \in SeqsUpTo(PayloadBytes, MaxPayload),
        end \in {_eom, <<>>}}

\* the first index >= from at which pat occurs in s, 0 when it does not
Find(s, pat, from) ==
    LET hits == {i \in from..(Len(s) - Len(pat) + 1) :
                    SubSeq(s, i, i + Len(pat) - 1) = pat}
    IN  IF hits = {} THEN 0 ELSE CHOOSE i \in hits : \A k \in hits : i <= k

\* `pat in s` on bytes
Contains(s, pat) == Find(s, pat, 1) /= 0

\* s.split(pat)[0]
SplitFirst(s, pat) ==
    IF Contains(s, pat) THEN SubSeq(s, 1, Find(s, pat, 1) - 1) ELSE s

\* s.split(pat)[1], for s that contains pat
SplitSecond(s, pat) ==
    LET rest == SubSeq(s, Find(s, pat, 1) + Len(pat), Len(s))
    IN  SplitFirst(rest, pat)

\* one pass of `while True:` in Motor.recv, on a read of n bytes
RecvRead ==
    /\ rstate = "reading"
    /\ rpos < Len(stream)
    /\ \E n \in 1..RecvSize :
        /\ rpos + n <= Len(stream)
        /\ LET data == SubSeq(stream, rpos + 1, rpos + n)
               acc == IF msg = <<>> /\ Contains(data, _header)
                      THEN SplitSecond(data, _header)
                      ELSE msg \o data
           IN  /\ rpos' = rpos + n
               /\ IF Contains(acc, _eom)
                  THEN /\ msg' = SplitFirst(acc, _eom)
                       /\ rstate' = "returned"
                  ELSE /\ msg' = acc
                       /\ rstate' = "reading"
    /\ UNCHANGED <<stream, statusVars, sockVars>>
    /\ UNCHANGED outerVars

\* nothing more arrives: socket.recv raises socket.timeout (settimeout(1))
RecvTimeout ==
    /\ rstate = "reading"
    /\ rpos = Len(stream)
    /\ rstate' = "timeout"
    /\ UNCHANGED <<stream, rpos, msg, statusVars, sockVars>>
    /\ UNCHANGED outerVars

-----------------------------------------------------------------------------
(* The socket shared by the foreground caller and the heartbeat task.        *)

\* "fg": the thread that calls send_command; "hb": the task Motor._heartbeat
Procs == {"fg", "hb"}

\* Motor._settings["max_connection_attempts"]
MaxConnectionAttempts == 3

\* the commands of one status poll: request_status, get_position
PollCommands == 2

\* the status replies a heartbeat poll decodes
BeatReplies == {<<"R">>, <<"R", "F">>, <<"R", "M">>}

\* Motor.base_heartrate and Motor.active_heartrate, in tenths of a second
base_heartrate == 20
active_heartrate == 5

\* Motor.is_moving
is_moving == IF status["moving"] = None THEN FALSE ELSE status["moving"] = True

\* a caller that is not inside _send_raw_command
ProcIdle(at) ==
    [pc |-> at, sends |-> 0, sendFails |-> 0, connects |-> 0,
     attempts |-> 0, outcome |-> "none"]

\* the caller p enters _send_raw_command
Enter(p) == [proc EXCEPT ![p] = ProcIdle("send")]

\* the first self.socket.send(cmd_str), and the except clause up to connect()
Send(p) ==
    /\ proc[p].pc = "send"
    /\ IF sock = "open"
       THEN /\ proc' = [proc EXCEPT ![p].pc = "recv", ![p].sends = @ + 1]
            /\ wire' = Append(wire, p)
            /\ UNCHANGED <<status, lastUpdate>>
       ELSE IF sock = "closed"
       THEN \* OSError (bad file descriptor), which is no ConnectionError
            /\ proc' = [proc EXCEPT ![p].pc = "raised", ![p].sends = @ + 1,
                                    ![p].sendFails = @ + 1]
            /\ UNCHANGED <<wire, status, lastUpdate>>
       ELSE \* ConnectionError: update_status(connected=False); connect()
            /\ proc' = [proc EXCEPT ![p].pc = "connect", ![p].sends = @ + 1,
                                    ![p].sendFails = @ + 1,
                                    ![p].connects = @ + 1,
                                    ![p].attempts = 0]
            /\ UpdateStatus([connected |-> False])
            /\ UNCHANGED wire
    /\ UNCHANGED <<sock, hbStep, drops, calls, beats, misdelivered>>
    /\ UNCHANGED <<rateVars, stopVars>>
    /\ UNCHANGED <<pollVars, recvVars>>
    /\ UNCHANGED outerVars

ConnectAttemptSwallow(p) ==
    /\ proc[p].pc = "connect"
    /\ \E result \in {"ok", "refused", "oserror"} :
        LET count == proc[p].attempts + 1
        IN  IF result = "ok"
            THEN /\ sock' = "open"
                 /\ wire' = <<>>
                 /\ UpdateStatus([connected |-> True])
                 /\ proc' = [proc EXCEPT ![p].pc = "resend",
                                         ![p].attempts = count,
                                         ![p].outcome = result]
            ELSE /\ proc' = [proc EXCEPT
                        ![p].pc = IF result = "refused"
                                  THEN IF count < MaxConnectionAttempts
                                       THEN "connect" ELSE "resend"
                                  ELSE "raised",
                        ![p].attempts = count,
                        ![p].outcome = result]
                 /\ UNCHANGED <<sock, wire, status, lastUpdate>>
    /\ UNCHANGED <<hbStep, drops, calls, beats, misdelivered>>
    /\ UNCHANGED <<rateVars, stopVars>>
    /\ UNCHANGED <<pollVars, recvVars>>
    /\ UNCHANGED outerVars

\* one pass of `for _count in range(_allowed_attempts):` in Motor.connect
ConnectAttempt(p) ==
    /\ proc[p].pc = "connect"
    /\ \E result \in {"ok", "refused", "oserror"} :
        LET count == proc[p].attempts + 1
        IN  IF result = "ok"
            THEN \* s.connect returns: self.socket = s; update_status; return
                 /\ sock' = "open"
                 /\ wire' = <<>>
                 /\ UpdateStatus([connected |-> True])
                 /\ proc' = [proc EXCEPT ![p].pc = "resend",
                                         ![p].attempts = count,
                                         ![p].outcome = result]
            ELSE \* "refused": one of the four caught errors, raised again on
                 \* the last pass; "oserror": any other error, never caught
                 /\ proc' = [proc EXCEPT
                        ![p].pc = IF result = "refused"
                                  THEN IF count < MaxConnectionAttempts
                                       THEN "connect" ELSE "raised"
                                  ELSE "raised",
                        ![p].attempts = count,
                        ![p].outcome = result]
                 /\ UNCHANGED <<sock, wire, status, lastUpdate>>
    /\ UNCHANGED <<hbStep, drops, calls, beats, misdelivered>>
    /\ UNCHANGED <<rateVars, stopVars>>
    /\ UNCHANGED <<pollVars, recvVars>>
    /\ UNCHANGED outerVars

ResendOrReconnect(p) ==
    /\ proc[p].pc = "resend"
    /\ IF sock = "open"
       THEN /\ proc' = [proc EXCEPT ![p].pc = "recv", ![p].sends = @ + 1]
            /\ wire' = Append(wire, p)
       ELSE /\ proc' = [proc EXCEPT ![p].pc = "connect", ![p].sends = @ + 1,
                                    ![p].sendFails = @ + 1,
                                    ![p].connects = @ + 1,
                                    ![p].attempts = 0]
            /\ UNCHANGED wire
    /\ UNCHANGED <<sock, hbStep, drops, calls, beats, misdelivered>>
    /\ UNCHANGED <<rateVars, stopVars>>
    /\ UNCHANGED <<statusVars, recvVars>>
    /\ UNCHANGED outerVars

\* the second self.socket.send(cmd_str), inside the except clause
Resend(p) ==
    /\ proc[p].pc = "resend"
    /\ IF sock = "open"
       THEN /\ proc' = [proc EXCEPT ![p].pc = "recv", ![p].sends = @ + 1]
            /\ wire' = Append(wire, p)
       ELSE \* ConnectionError, with no handler around it
            /\ proc' = [proc EXCEPT ![p].pc = "raised", ![p].sends = @ + 1,
                                    ![p].sendFails = @ + 1]
            /\ UNCHANGED wire
    /\ UNCHANGED <<sock, hbStep, drops, calls, beats, misdelivered>>
    /\ UNCHANGED <<rateVars, stopVars>>
    /\ UNCHANGED <<statusVars, recvVars>>
    /\ UNCHANGED outerVars

\* data = self.recv(), and the match of the reply in send_command
Recv(p) ==
    /\ proc[p].pc = "recv"
    /\ IF sock /= "open" \/ wire = <<>>
       THEN \* an error on a lost or closed socket, socket.timeout on silence
            /\ proc' = [proc EXCEPT ![p].pc = "raised"]
            /\ UNCHANGED <<wire, misdelivered>>
       ELSE /\ wire' = Tail(wire)
            /\ misdelivered' = (misdelivered \/ Head(wire) /= p)
            /\ \E next \in IF Head(wire) = p THEN {"returned"}
                           ELSE {"returned", "raised"} :
                \* the reply to another request may fail this command's pattern
                proc' = [proc EXCEPT ![p].pc = next]
    /\ UNCHANGED <<sock, hbStep, drops, calls, beats>>
    /\ UNCHANGED <<rateVars, stopVars>>
    /\ UNCHANGED <<statusVars, recvVars>>
    /\ UNCHANGED outerVars

\* the caller's thread calls Motor.send_command
FgCall ==
    /\ proc["fg"].pc \in {"idle", "returned", "raised"}
    /\ calls < MaxCommands
    /\ calls' = calls + 1
    /\ proc' = Enter("fg")
    /\ UNCHANGED <<sock, wire, hbStep, drops, beats, misdelivered>>
    /\ UNCHANGED <<rateVars, stopVars>>
    /\ UNCHANGED <<statusVars, recvVars>>
    /\ UNCHANGED outerVars

\* `while True:` of Motor._heartbeat reaches self.retrieve_motor_status()
HbBeat ==
    /\ proc["hb"].pc = "sleep"
    /\ ~cancelled
    /\ beats < MaxBeats
    /\ beats' = beats + 1
    /\ heartrate' = IF is_moving THEN active_heartrate ELSE base_heartrate
    /\ hbStep' = 1
    /\ proc' = Enter("hb")
    /\ UNCHANGED <<sock, wire, drops, calls, misdelivered, slept, stopVars>>
    /\ UNCHANGED <<statusVars, recvVars>>
    /\ UNCHANGED outerVars

\* retrieve_motor_status goes on after a command has returned; after the last
\* one it calls update_status and the task awaits asyncio.sleep
HbNext ==
    /\ proc["hb"].pc = "returned"
    /\ IF hbStep < PollCommands
       THEN /\ hbStep' = hbStep + 1
            /\ proc' = Enter("hb")
            /\ UNCHANGED <<status, lastUpdate, slept>>
       ELSE /\ hbStep' = 0
            /\ proc' = [proc EXCEPT !["hb"] = ProcIdle("sleep")]
            /\ \E reply \in BeatReplies, pos \in Positions :
                UpdateStatus(Merge(DecodeStatus(NullStatus, reply),
                                   [position |-> PyInt(pos)]))
            /\ slept' = [called |-> TRUE, rate |-> heartrate,
                         moving |-> status'["moving"]]
    /\ UNCHANGED <<sock, wire, drops, calls, beats, misdelivered>>
    /\ UNCHANGED <<heartrate, stopVars>>
    /\ UNCHANGED <<pollVars, recvVars>>
    /\ UNCHANGED outerVars

\* an exception leaves retrieve_motor_status inside the coroutine: nothing in
\* _heartbeat catches it and the task is done
HbRaise ==
    /\ proc["hb"].pc = "raised"
    /\ proc' = [proc EXCEPT !["hb"].pc = "finished"]
    /\ UNCHANGED <<sock, wire, hbStep, drops, calls, beats, misdelivered>>
    /\ UNCHANGED <<rateVars, stopVars>>
    /\ UNCHANGED <<statusVars, recvVars>>
    /\ UNCHANGED outerVars

\* the task, cancelled, reaches `await asyncio.sleep(heartrate)` or waits in
\* it: CancelledError ends the coroutine
HbCancelled ==
    /\ proc["hb"].pc = "sleep"
    /\ cancelled
    /\ proc' = [proc EXCEPT !["hb"].pc = "cancelled"]
    /\ UNCHANGED <<sock, wire, hbStep, drops, calls, beats, misdelivered>>
    /\ UNCHANGED <<rateVars, stopVars>>
    /\ UNCHANGED <<statusVars, recvVars>>
    /\ UNCHANGED outerVars

\* Motor.stop_running, called from the caller's thread
StopRunning ==
    /\ cancelled' = (cancelled \/ tasks /= {})
    /\ tasks' = {}
    /\ sock' = "closed"
    /\ wire' = <<>>
    /\ loopStop' = TRUE
    /\ UNCHANGED <<proc, hbStep, drops, calls, beats, misdelivered, rateVars>>
    /\ UNCHANGED <<statusVars, recvVars>>
    /\ UNCHANGED outerVars

\* the controller or the network ends the connection
LinkDrop ==
    /\ sock = "open"
    /\ drops < MaxDrops
    /\ drops' = drops + 1
    /\ sock' = "broken"
    /\ wire' = <<>>
    /\ UNCHANGED <<proc, hbStep, calls, beats, misdelivered>>
    /\ UNCHANGED <<rateVars, stopVars>>
    /\ UNCHANGED <<statusVars, recvVars>>
    /\ UNCHANGED outerVars

-----------------------------------------------------------------------------
(* Motor instances and the class-level dicts _config and _settings.          *)

\* the addresses Motor instances are constructed for
Addresses == {"10.0.0.1", "10.0.0.2", "10.0.0.3"}

PySocket(n) == <<"socket", n>>
PyList(l) == <<"list", l>>

\* Motor.ip: self._config["ip"]; no instance has a _config of its own
MotorIp(m) == _config.ip

\* Motor.socket: self._settings["socket"]
MotorSocket(m) == _settings.socket

\* Motor.tasks: self._settings["tasks"], made a list on first use
MotorTasks(m) == IF _settings.tasks = None THEN PyList(<<>>) ELSE _settings.tasks

\* Motor.__init__(ip=ip): the ip setter, connect() and setup_event_loop()
MotorInit(ip) ==
    /\ Len(motors) < MaxMotors
    /\ LET m == Len(motors) + 1
           s == Len(sockets) + 1
       IN  /\ _config' = [_config EXCEPT !.ip = PyStr(ip)]
           /\ sockets' = Append(sockets, ip)
           /\ _settings' = [socket |-> PySocket(s),
                            tasks |-> PyList(Append(MotorTasks(m)[2], m))]
           /\ motors' = Append(motors, [ip |-> ip, socket |-> s, task |-> m])
    /\ UNCHANGED sent
    /\ UNCHANGED <<motorVars, exVars, gridVars, otherVars>>

\* self.socket.send(cmd_str) of _send_raw_command, called on instance m
MotorSend(m) ==
    /\ m \in 1..Len(motors)
    /\ LET s == MotorSocket(m)[2]
       IN  sent' = [called |-> TRUE, motor |-> m, socket |-> s,
                    peer |-> sockets[s]]
    /\ UNCHANGED <<_config, _settings, motors, sockets>>
    /\ UNCHANGED <<motorVars, exVars, gridVars, otherVars>>

-----------------------------------------------------------------------------
(* Exclusions on the shared dataset (BaseExclusion, LaPDXYExclusion).        *)
(* A boolean array holds TRUE where a point is allowed.  The arrays of the   *)
(* circular and divider exclusions are taken over four points of the motion  *)
(* space; the geometry that places the dividers is left out.                 *)

Points == {"center", "edge", "above_cone", "below_cone"}

\* the distance of a point from the centre of the chamber
PointRadius(p) == IF p = "edge" THEN 40 ELSE 10

\* the values of the input `diameter`
Diameters == {50, 100}

\* the key of the global mask in the dataset (MBItem.mask_name, "mask")
mask_name == 0

AllAllowed == [p \in Points |-> TRUE]

\* np.logical_and
LogicalAnd(a, b) == [p \in Points |-> a[p] /\ b[p]]

\* CircularExclusion(radius=..., center=(0, 0), exclude="outside")
CircularMask(radius) == [p \in Points |-> PointRadius(p) <= radius]

\* DividerExclusion(mb=..., exclude=...) for the upper and the lower line
DividerMask(side) ==
    [p \in Points |-> IF side = "upper" THEN p /= "above_cone"
                      ELSE p /= "below_cone"]

\* the detached exclusions a composite builds
CircularSub(radius) == [type |-> "circular", radius |-> radius, side |-> "none"]
\* the divider of one cone trajectory: its line (slope, intercept) and its
\* excluded side follow from the port angle, the cone angle and the pivot
DividerSub(side, inputs) ==
    [type |-> "divider", radius |-> 0, side |-> side,
     port_location |-> inputs.port_location,
     cone_full_angle |-> inputs.cone_full_angle,
     pivot_radius |-> inputs.pivot_radius]

\* BaseExclusion.exclusion of a detached exclusion: self.item raises
\* KeyError and the array is generated
SubExclusion(sub) ==
    IF sub.type = "circular" THEN CircularMask(sub.radius)
    ELSE DividerMask(sub.side)

RECURSIVE CombineFrom(_, _, _)
CombineFrom(composed, i, exclusion) ==
    IF i > Len(composed) THEN exclusion
    ELSE CombineFrom(composed, i + 1,
                     LogicalAnd(exclusion, SubExclusion(composed[i])))

\* LaPDXYExclusion._combine_exclusions
_combine_exclusions(composed) ==
    CombineFrom(composed, 2, SubExclusion(composed[1]))

\* _generate_exclusion of the object o: the list composed_exclusions it
\* leaves behind, how many exclusions it built and the array it returns
_generate_exclusion(o) ==
    IF o.type = "circular"
    THEN [composed |-> o.composed_exclusions, built |-> 0,
          array |-> CircularMask(o.inputs.diameter \div 2)]
    ELSE LET new == <<CircularSub(o.inputs.diameter \div 2)>> \o
                    (IF o.inputs.include_cone
                     THEN <<DividerSub("upper", o.inputs),
                            DividerSub("lower", o.inputs)>>
                     ELSE <<>>)
             composed == o.composed_exclusions \o new
         IN  [composed |-> composed, built |-> Len(new),
              array |-> _combine_exclusions(composed)]

\* BaseExclusion.exclusion of the object o on the dataset d
Exclusion(d, o) ==
    IF o.name \in DOMAIN d THEN d[o.name] ELSE _generate_exclusion(o).array

\* BaseExclusion.is_excluded(point)
is_excluded(d, o, point) == ~Exclusion(d, o)[point]

\* self._ds[self.name] = array
WithItem(d, o, array) ==
    [k \in DOMAIN d \cup {o.name} |-> IF k = o.name THEN array ELSE d[k]]

WithMaskReplaced(d, o) == [d EXCEPT ![mask_name] = Exclusion(d, o)]

\* self._ds[self.mask_name] = np.logical_and(self.mask, self.exclusion)
WithMask(d, o) ==
    [d EXCEPT ![mask_name] = LogicalAnd(d[mask_name], Exclusion(d, o))]

\* the object o after its _generate_exclusion has run
Generated(o) ==
    [o EXCEPT !.composed_exclusions = _generate_exclusion(o).composed,
              !.built = _generate_exclusion(o).built]

\* the inputs an exclusion of a type takes: the diameter of a circular
\* exclusion varies, and whether a LaPD exclusion includes the cone (of the
\* east port, with the default cone angle and pivot)
ExInputs(type) ==
    IF type = "lapd-XY"
    THEN [diameter : {100}, include_cone : BOOLEAN,
          pivot_radius : {PyInt(58)}, port_location : {PyInt(0)},
          cone_full_angle : {PyInt(80)}]
    ELSE [diameter : Diameters, include_cone : {FALSE}]

\* BaseExclusion.__init__; LaPDXYExclusion takes no skip_ds_add
ExclusionInit(type, skip_ds_add, inputs) ==
    /\ Len(exs) < MaxExclusions
    /\ type = "lapd-XY" => ~skip_ds_add
    /\ LET o == [type |-> type, skip_ds_add |-> skip_ds_add,
                 name |-> IF skip_ds_add THEN -1 ELSE Cardinality(DOMAIN ds),
                 inputs |-> inputs, composed_exclusions |-> <<>>,
                 built |-> 0]
       IN  IF skip_ds_add
           THEN /\ exs' = Append(exs, o)
                /\ ds' = ds
           ELSE \* self.regenerate_exclusion(); self.update_global_mask()
                /\ exs' = Append(exs, Generated(o))
                /\ ds' = WithMask(WithItem(ds, o, _generate_exclusion(o).array),
                                  o)
    /\ exLast' = [op |-> "__init__", ex |-> Len(exs) + 1, raised |-> FALSE]
    /\ UNCHANGED <<pending, exCalls>>
    /\ UNCHANGED <<motorVars, ownVars, gridVars, otherVars>>

\* an assignment into the dict that BaseExclusion.inputs hands out
SetInputs(e, inputs) ==
    /\ e \in 1..Len(exs)
    /\ inputs \in ExInputs(exs[e].type)
    /\ inputs /= exs[e].inputs
    /\ exCalls < MaxExCalls
    /\ exCalls' = exCalls + 1
    /\ exs' = [exs EXCEPT ![e].inputs = inputs]
    /\ exLast' = [op |-> "inputs", ex |-> e, raised |-> FALSE]
    /\ UNCHANGED <<ds, pending>>
    /\ UNCHANGED <<motorVars, ownVars, gridVars, otherVars>>

RegenerateExclusionUnguarded(e) ==
    /\ e \in 1..Len(exs)
    /\ exCalls < MaxExCalls
    /\ exCalls' = exCalls + 1
    /\ exs' = [exs EXCEPT ![e] = Generated(exs[e])]
    /\ ds' = WithItem(ds, exs[e], _generate_exclusion(exs[e]).array)
    /\ pending' = pending \cup {e}
    /\ exLast' = [op |-> "regenerate_exclusion", ex |-> e, raised |-> FALSE]
    /\ UNCHANGED <<motorVars, ownVars, gridVars, otherVars>>

\* BaseExclusion.regenerate_exclusion
RegenerateExclusion(e) ==
    /\ e \in 1..Len(exs)
    /\ exCalls < MaxExCalls
    /\ exCalls' = exCalls + 1
    /\ IF exs[e].skip_ds_add
       THEN \* RuntimeError
            /\ exLast' = [op |-> "regenerate_exclusion", ex |-> e,
                          raised |-> TRUE]
            /\ UNCHANGED <<ds, exs, pending>>
       ELSE /\ exs' = [exs EXCEPT ![e] = Generated(exs[e])]
            /\ ds' = WithItem(ds, exs[e], _generate_exclusion(exs[e]).array)
            /\ pending' = pending \cup {e}
            /\ exLast' = [op |-> "regenerate_exclusion", ex |-> e,
                          raised |-> FALSE]
    /\ UNCHANGED <<motorVars, ownVars, gridVars, otherVars>>

\* BaseExclusion.update_global_mask
UpdateGlobalMask(e) ==
    /\ e \in 1..Len(exs)
    /\ IF exs[e].skip_ds_add
       THEN \* RuntimeError
            /\ exLast' = [op |-> "update_global_mask", ex |-> e,
                          raised |-> TRUE]
            /\ UNCHANGED <<ds, pending>>
       ELSE /\ ds' = WithMask(ds, exs[e])
            /\ pending' = pending \ {e}
            /\ exLast' = [op |-> "update_global_mask", ex |-> e,
                          raised |-> FALSE]
    /\ UNCHANGED <<exs, exCalls>>
    /\ UNCHANGED <<motorVars, ownVars, gridVars, otherVars>>

-----------------------------------------------------------------------------
(* LaPDXYExclusion.__init__: the validation of its keyword arguments.  A     *)
(* string is a sequence of characters; "long_s" is the letter U+017F, which  *)
(* str.casefold turns into "s" and str.lower leaves alone.                   *)

\* LaPDXYExclusion._port_location_to_angle
_port_location_to_angle_turned ==
    (<<"e">> :> 90) @@ (<<"e", "a", "s", "t">> :> 90)
    @@ (<<"t">> :> 180) @@ (<<"t", "o", "p">> :> 180)
    @@ (<<"w">> :> 270) @@ (<<"w", "e", "s", "t">> :> 270)
    @@ (<<"b">> :> 0) @@ (<<"b", "o", "t", "t", "o", "m">> :> 0)
    @@ (<<"b", "o", "t">> :> 0)

_port_location_to_angle ==
    (<<"e">> :> 0) @@ (<<"e", "a", "s", "t">> :> 0)
    @@ (<<"t">> :> 90) @@ (<<"t", "o", "p">> :> 90)
    @@ (<<"w">> :> 180) @@ (<<"w", "e", "s", "t">> :> 180)
    @@ (<<"b">> :> 270) @@ (<<"b", "o", "t", "t", "o", "m">> :> 270)
    @@ (<<"b", "o", "t">> :> 270)

\* str.lower, character by character
LowerChar(c) ==
    CASE c = "A" -> "a" [] c = "B" -> "b" [] c = "E" -> "e" [] c = "M" -> "m"
      [] c = "O" -> "o" [] c = "P" -> "p" [] c = "S" -> "s" [] c = "T" -> "t"
      [] c = "W" -> "w" [] OTHER -> c

Lower(str) == [i \in 1..Len(str) |-> LowerChar(str[i])]

\* str.casefold, character by character
Casefold(str) ==
    [i \in 1..Len(str) |->
        IF str[i] = "long_s" THEN "s" ELSE LowerChar(str[i])]

\* isinstance(x, str), isinstance(x, (float, int))
IsStr(x) == x[1] = "str"
IsNumber(x) == x[1] = "int"

\* np.abs
Abs(x) == IF x < 0 THEN -x ELSE x

\* what is given as port_location: port names and angles, None
PortLocations ==
    {PyStr(str) : str \in {<<"E">>, <<"e">>, <<"E", "a", "s", "t">>,
                           <<"E", "A", "S", "T">>, <<"T">>, <<"t", "O", "p">>,
                           <<"W">>, <<"w", "e", "s", "t">>,
                           <<"w", "e", "long_s", "t">>, <<"B">>,
                           <<"b", "o", "t">>, <<"B", "o", "T">>,
                           <<"B", "O", "T", "T", "O", "M">>, <<"n">>}}
    \cup {PyInt(a) : a \in {-180, -90, 0, 45, 90, 180, 270, 360}}
    \cup {None}

\* what is given as cone_full_angle: angles, None
ConeAngles == {PyInt(a) : a \in {-10, 0, 80, 180, 200}} \cup {None}

\* the keyword arguments of LaPDXYExclusion
LapdArgs ==
    [diameter : {-100, 100}, pivot_radius : {PyInt(-58)},
     port_location : PortLocations, cone_full_angle : ConeAngles,
     include_cone : BOOLEAN]

\* the part of LaPDXYExclusion._validate_inputs on port_location
ValidatePort(inputs) ==
    LET port == inputs.port_location
        named == IF IsStr(port) /\ Lower(port[2]) \in DOMAIN _port_location_to_angle
                 THEN PyInt(_port_location_to_angle[Lower(port[2])])
                 ELSE port
    IN  IF IsStr(port)
           /\ Casefold(port[2]) \notin
                {Casefold(k) : k \in DOMAIN _port_location_to_angle}
        THEN [error |-> "ValueError", inputs |-> inputs]
        ELSE IF IsStr(port) /\ Lower(port[2]) \notin DOMAIN _port_location_to_angle
        THEN [error |-> "KeyError", inputs |-> inputs]
        ELSE IF ~IsNumber(named)
        THEN [error |-> "TypeError",
              inputs |-> [inputs EXCEPT !.port_location = named]]
        ELSE IF ~(-180 < named[2] /\ named[2] < 360)
        THEN [error |-> "ValueError",
              inputs |-> [inputs EXCEPT !.port_location = named]]
        ELSE [error |-> "", inputs |-> [inputs EXCEPT !.port_location = named]]

\* LaPDXYExclusion._validate_inputs: the error it raises, "" for none, and
\* the dict self.inputs it leaves behind
_validate_inputs(args) ==
    LET sized == [args EXCEPT !.diameter = Abs(args.diameter)]
        pivoted == [sized EXCEPT
                       !.pivot_radius = PyInt(Abs(args.pivot_radius[2]))]
        cone == args.cone_full_angle
    IN  IF ~args.include_cone
        THEN [error |-> "",
              inputs |-> [sized EXCEPT !.pivot_radius = None,
                                       !.port_location = None,
                                       !.cone_full_angle = None]]
        ELSE IF ~IsNumber(cone)
        THEN [error |-> "ValueError", inputs |-> pivoted]
        ELSE IF 0 <= cone[2] /\ cone[2] >= 180
        THEN [error |-> "ValueError", inputs |-> pivoted]
        ELSE ValidatePort(pivoted)

\* no LaPD exclusion
NoLapd ==
    [args |-> <<>>, state |-> "none", error |-> "", inputs |-> <<>>,
     composed_exclusions |-> <<>>, array |-> <<>>]

\* LaPDXYExclusion(ds, **args) as it ends: raised in _validate_inputs, or
\* built with the exclusions and the array of regenerate_exclusion
LaPDXYExclusion(args) ==
    LET valid == _validate_inputs(args)
        o == [type |-> "lapd-XY", inputs |-> valid.inputs,
              composed_exclusions |-> <<>>]
    IN  IF valid.error /= ""
        THEN [NoLapd EXCEPT !.args = args, !.state = "raised",
                            !.error = valid.error, !.inputs = valid.inputs]
        ELSE [NoLapd EXCEPT !.args = args, !.state = "built",
                            !.inputs = valid.inputs,
                            !.composed_exclusions = _generate_exclusion(o).composed,
                            !.array = _generate_exclusion(o).array]

\* LaPDXYExclusion.__init__
LaPDXYExclusionInit ==
    /\ lapd.state = "new"
    /\ lapd' = LaPDXYExclusion(lapd.args)
    /\ UNCHANGED <<motorVars, ownVars, exVars, gridVars, managerVars, axisVars,
                   transformVars, commandVars>>

-----------------------------------------------------------------------------
(* RunManagerConfig: the validation of the motion groups of a run.  The      *)
(* dict config["motion_group"] maps an index to a motion group, of which the *)
(* name and the motor addresses of the axes of its drive are kept.           *)

\* the names given to motion groups
GroupNames == {"A", "B"}

\* a motion group configuration: its name and the ip of each axis of its drive
MotionGroupConfigs == [name : GroupNames, ips : [1..2 -> Addresses]]

\* the dicts collected_mg_configs of _validate_config
CollectedConfigs ==
    UNION {[0..(n - 1) -> MotionGroupConfigs] : n \in 0..MaxGroups}

\* the dict mg without the keys in drop
Without(mg, drop) == [key \in DOMAIN mg \ drop |-> mg[key]]

\* mg_config_names.count(name)
NameCount(mg, name) == Cardinality({key \in DOMAIN mg : mg[key].name = name})

\* drive_ips.count(ip)
IpCount(mg, ip) ==
    Cardinality({ka \in (DOMAIN mg) \X (1..2) : mg[ka[1]].ips[ka[2]] = ip})

_validate_motion_group_names_later(mg) ==
    LET names == {mg[key].name : key \in DOMAIN mg}
        later == {key \in DOMAIN mg :
                     \E k \in DOMAIN mg : k < key /\ mg[k].name = mg[key].name}
    IN  IF Cardinality(names) /= Cardinality(DOMAIN mg)
        THEN [motion_group |-> Without(mg, later), errors |-> 1]
        ELSE [motion_group |-> mg, errors |-> 0]

\* RunManagerConfig._validate_motion_group_names: the dict
\* config["motion_group"] it leaves and the errors it logs
_validate_motion_group_names(mg) ==
    LET names == {mg[key].name : key \in DOMAIN mg}
        duplicates == {name \in names : NameCount(mg, name) /= 1}
    IN  IF Cardinality(names) /= Cardinality(DOMAIN mg)
        THEN [motion_group |->
                 Without(mg, {key \in DOMAIN mg : mg[key].name \in duplicates}),
              errors |-> 1]
        ELSE [motion_group |-> mg, errors |-> 0]

\* RunManagerConfig._validate_drive_ips: new_mg_configs is filled and never
\* stored, the config is returned as it came
_validate_drive_ips(mg) ==
    LET drive_ips == {mg[key].ips[a] : key \in DOMAIN mg, a \in 1..2}
        duplicates == {ip \in drive_ips : IpCount(mg, ip) /= 1}
        shared == {key \in DOMAIN mg :
                      \E a \in 1..2 : mg[key].ips[a] \in duplicates}
    IN  IF Cardinality(drive_ips) /= 2 * Cardinality(DOMAIN mg)
        THEN [motion_group |-> mg, new_mg_configs |-> Without(mg, shared),
              errors |-> 1]
        ELSE [motion_group |-> mg, new_mg_configs |-> mg, errors |-> 0]

\* no run configuration
NoManager ==
    [given |-> <<>>, state |-> "none", named |-> <<>>, motion_group |-> <<>>,
     errors |-> 0]

\* RunManagerConfig._validate_config on the collected motion groups
ValidateConfig ==
    /\ manager.state = "new"
    /\ IF DOMAIN manager.given = {}
       THEN \* no motion group: an error is logged
            manager' = [manager EXCEPT !.state = "validated", !.errors = 1]
       ELSE LET named == _validate_motion_group_names(manager.given)
                checked == _validate_drive_ips(named.motion_group)
            IN  manager' = [manager EXCEPT
                               !.state = "validated",
                               !.named = named.motion_group,
                               !.motion_group = checked.motion_group,
                               !.errors = named.errors + checked.errors]
    /\ UNCHANGED <<motorVars, ownVars, exVars, gridVars, lapdVars, axisVars,
                   transformVars, commandVars>>

-----------------------------------------------------------------------------
(* Axis: the conversion between the units of the motor and of the axis.      *)
(* A unit is rev, steps, the unit of the axis or counts, per second to the   *)
(* power 0, 1 or 2; a number is a fraction <<numerator, denominator>>.       *)

Unit(base, per_s) == [base |-> base, per_s |-> per_s]

\* u.rev, u.steps, self.units and a unit of the motor no pair is known for
Units == [base : {"rev", "steps", "units", "counts"}, per_s : 0..2]

\* no unit: the `units` of a command without one, a reply that is a string,
\* the axis_unit None of send_command
NoUnit == Unit("none", 0)

\* x * factor
Scaled(x, factor) == <<x[1] * factor[1], x[2] * factor[2]>>

\* the values of Motor.steps_per_rev and of the argument units_per_rev
StepsPerRev == {200, 400}
UnitsPerRev == {-1, 2, 5}

\* the values that are sent and converted
AxisValues == {<<-3, 1>>, <<0, 1>>, <<7, 1>>}

\* the entries with the backward function of steps and units not inverted
BaseEquivsOneWay(steps_per_rev, units_per_rev) ==
    <<[a |-> "rev", b |-> "steps",
       forward |-> <<steps_per_rev, 1>>, backward |-> <<1, steps_per_rev>>],
      [a |-> "rev", b |-> "units",
       forward |-> <<units_per_rev, 1>>, backward |-> <<1, units_per_rev>>],
      [a |-> "steps", b |-> "units",
       forward |-> <<units_per_rev, steps_per_rev>>,
       backward |-> <<units_per_rev, steps_per_rev>>]>>

\* the three (unit, unit, forward, backward) entries a rate or an
\* acceleration entry is made of: a lambda `x * c / d` is the factor <<c, d>>
BaseEquivs(steps_per_rev, units_per_rev) ==
    <<[a |-> "rev", b |-> "steps",
       forward |-> <<steps_per_rev, 1>>, backward |-> <<1, steps_per_rev>>],
      [a |-> "rev", b |-> "units",
       forward |-> <<units_per_rev, 1>>, backward |-> <<1, units_per_rev>>],
      [a |-> "steps", b |-> "units",
       forward |-> <<units_per_rev, steps_per_rev>>,
       backward |-> <<steps_per_rev, units_per_rev>>]>>

\* Axis.equivalencies: the three entries, then for each of them its rate
\* (/ u.s) and its acceleration (/ u.s / u.s) with the same two functions
equivalencies(a) ==
    LET equivs == BaseEquivs(a.steps_per_rev, a.units_per_rev)
        entry(k, per_s) ==
            [a |-> Unit(equivs[k].a, per_s), b |-> Unit(equivs[k].b, per_s),
             forward |-> equivs[k].forward, backward |-> equivs[k].backward]
    IN  [i \in 1..9 |->
            IF i <= 3 THEN entry(i, 0)
            ELSE entry(((i - 4) \div 2) + 1, ((i - 4) % 2) + 1)]

\* Axis.conversion_pairs: (unit of the motor, unit of the axis)
conversion_pairs ==
    <<<<Unit("steps", 0), Unit("units", 0)>>,
      <<Unit("steps", 1), Unit("units", 1)>>,
      <<Unit("steps", 2), Unit("units", 2)>>,
      <<Unit("rev", 1), Unit("units", 1)>>,
      <<Unit("rev", 2), Unit("units", 2)>>>>

\* the loop over conversion_pairs in send_command: the axis unit of the
\* first pair whose motor unit is motor_unit, none without such a pair
AxisUnit(motor_unit) ==
    LET hits == {i \in DOMAIN conversion_pairs :
                    conversion_pairs[i][1] = motor_unit}
    IN  IF hits = {} THEN NoUnit
        ELSE conversion_pairs[CHOOSE i \in hits : \A j \in hits : i <= j][2]

\* quantity.to(unit, equivalencies=equivs): the first entry that joins the
\* two units converts, by its forward or its backward function
To(q, unit, equivs) ==
    LET hits == {i \in DOMAIN equivs :
                    \/ equivs[i].a = q.unit /\ equivs[i].b = unit
                    \/ equivs[i].b = q.unit /\ equivs[i].a = unit}
        first == equivs[CHOOSE i \in hits : \A j \in hits : i <= j]
    IN  IF q.unit = unit THEN [error |-> "", unit |-> unit, value |-> q.value]
        ELSE IF hits = {}
        THEN [error |-> "UnitConversionError", unit |-> q.unit,
              value |-> q.value]
        ELSE [error |-> "", unit |-> unit,
              value |-> Scaled(q.value, IF first.a = q.unit THEN first.forward
                                        ELSE first.backward)]

\* no Axis
NoAxis ==
    [steps_per_rev |-> 0, units_per_rev |-> 0, op |-> "none", state |-> "none",
     motor_unit |-> NoUnit, args |-> <<>>, reply |-> [unit |-> NoUnit,
                                                      value |-> <<0, 1>>],
     error |-> "", forwarded |-> <<>>, sent |-> FALSE,
     rtn |-> [unit |-> NoUnit, value |-> <<0, 1>>],
     origin |-> [unit |-> NoUnit, value |-> <<0, 1>>],
     q |-> [unit |-> NoUnit, value |-> <<0, 1>>], hops |-> 0]

\* an Axis and a send_command call on it: the `units` entry of the command,
\* its positional arguments and the reply the motor will give
SendCommandCalls ==
    {[NoAxis EXCEPT !.steps_per_rev = spr, !.units_per_rev = upr,
                    !.op = "send_command", !.state = "new",
                    !.motor_unit = motor_unit, !.args = args,
                    !.reply = reply] :
        spr \in StepsPerRev, upr \in UnitsPerRev,
        motor_unit \in Units \cup {NoUnit},
        args \in {<<>>, <<<<7, 1>>>>},
        reply \in [unit : Units \cup {NoUnit}, value : {<<400, 1>>}]}

\* an Axis and a quantity that is to be converted
ConversionCalls ==
    {[NoAxis EXCEPT !.steps_per_rev = spr, !.units_per_rev = upr,
                    !.op = "to", !.state = "new",
                    !.origin = [unit |-> unit, value |-> value],
                    !.q = [unit |-> unit, value |-> value]] :
        spr \in StepsPerRev, upr \in UnitsPerRev,
        unit \in Units, value \in AxisValues}

\* Axis.send_command: `axis_unit.to(motor_unit, eqivalencies=...)` passes a
\* keyword that Unit.to does not take, which is a TypeError
AxisSendCommand ==
    /\ axis.op = "send_command"
    /\ axis.state = "new"
    /\ LET motor_unit == axis.motor_unit
           axis_unit == AxisUnit(motor_unit)
           reply == axis.reply
           reply_unit == AxisUnit(reply.unit)
           back == To(reply, reply_unit, equivalencies(axis))
       IN  IF motor_unit /= NoUnit /\ Len(axis.args) > 0 /\ axis_unit /= NoUnit
           THEN axis' = [axis EXCEPT !.state = "raised", !.error = "TypeError"]
           ELSE IF reply.unit /= NoUnit /\ reply_unit /= NoUnit
           THEN axis' = [axis EXCEPT
                            !.state = IF back.error = "" THEN "done"
                                      ELSE "raised",
                            !.error = back.error,
                            !.forwarded = axis.args, !.sent = TRUE,
                            !.rtn = [unit |-> back.unit, value |-> back.value]]
           ELSE axis' = [axis EXCEPT !.state = "done",
                                     !.forwarded = axis.args, !.sent = TRUE,
                                     !.rtn = reply]
    /\ UNCHANGED <<motorVars, ownVars, exVars, gridVars, lapdVars, managerVars,
                   transformVars, commandVars>>

\* a conversion of the quantity with the equivalencies of the Axis, as in
\* Axis.position
AxisTo(unit) ==
    /\ axis.op = "to"
    /\ axis.state \in {"new", "done"}
    /\ axis.hops < MaxConversions
    /\ LET there == To(axis.q, unit, equivalencies(axis))
       IN  axis' = [axis EXCEPT
                       !.state = IF there.error = "" THEN "done" ELSE "raised",
                       !.error = there.error,
                       !.q = [unit |-> there.unit, value |-> there.value],
                       !.hops = axis.hops + 1]
    /\ UNCHANGED <<motorVars, ownVars, exVars, gridVars, lapdVars, managerVars,
                   transformVars, commandVars>>

-----------------------------------------------------------------------------
(* LaPDXYTransform: the matrices to the drive and back to the motion space.  *)
(* A number is a fraction <<numerator, denominator>> in lowest terms; an     *)
(* angle is held by its cosine and its sine.  The inputs are those for which *)
(* every square root that is taken is a fraction.                            *)

RECURSIVE GCD(_, _)
GCD(a, b) == IF b = 0 THEN a ELSE GCD(b, a % b)

\* the fraction n / d in lowest terms, with a positive denominator
Rat(n, d) ==
    LET g == GCD(Abs(n), Abs(d))
    IN  IF d < 0 THEN <<(-n) \div g, (-d) \div g>> ELSE <<n \div g, d \div g>>

RInt(i) == <<i, 1>>
RAdd(x, y) == Rat(x[1] * y[2] + y[1] * x[2], x[2] * y[2])
RSub(x, y) == Rat(x[1] * y[2] - y[1] * x[2], x[2] * y[2])
RMul(x, y) == Rat(x[1] * y[1], x[2] * y[2])
RDiv(x, y) == Rat(x[1] * y[2], x[2] * y[1])
RNeg(x) == <<-x[1], x[2]>>

\* the whole numbers that are found as square roots
Roots == 0..400

IsSquare(n) == \E k \in Roots : k * k = n
Root(n) == CHOOSE k \in Roots : k * k = n

\* np.sqrt, where the root is a fraction
HasRSqrt(x) == x[1] >= 0 /\ IsSquare(x[1]) /\ IsSquare(x[2])
RSqrt(x) == <<Root(x[1]), Root(x[2])>>

\* np.arctan: the angle in (-pi/2, pi/2) with the tangent t
Arctan(t) ==
    LET h == RSqrt(RAdd(RInt(1), RMul(t, t)))
    IN  [cos |-> RDiv(RInt(1), h), sin |-> RDiv(t, h)]

\* np.arcsin: the angle in [-pi/2, pi/2] with the sine x
Arcsin(x) == [cos |-> RSqrt(RSub(RInt(1), RMul(x, x))), sin |-> x]

\* -angle
AngleNeg(a) == [cos |-> a.cos, sin |-> RNeg(a.sin)]

AngleSubSwapped(b, a) ==
    [cos |-> RAdd(RMul(b.cos, a.cos), RMul(b.sin, a.sin)),
     sin |-> RSub(RMul(b.cos, a.sin), RMul(b.sin, a.cos))]

\* b - a
AngleSub(b, a) ==
    [cos |-> RAdd(RMul(b.cos, a.cos), RMul(b.sin, a.sin)),
     sin |-> RSub(RMul(b.sin, a.cos), RMul(b.cos, a.sin))]

\* np.tan
Tan(a) == RDiv(a.sin, a.cos)

\* np.matmul of two 3x3 matrices
MatMul(A, B) ==
    [i \in 1..3 |-> [j \in 1..3 |->
        RAdd(RAdd(RMul(A[i][1], B[1][j]), RMul(A[i][2], B[2][j])),
             RMul(A[i][3], B[3][j]))]]

\* np.diag(polarity.tolist() + [1.0])
Diag(polarity) ==
    <<<<RInt(polarity[1]), RInt(0), RInt(0)>>,
      <<RInt(0), RInt(polarity[2]), RInt(0)>>,
      <<RInt(0), RInt(0), RInt(1)>>>>

\* polarity * points
Flipped(polarity, point) ==
    <<RMul(RInt(polarity[1]), point[1]), RMul(RInt(polarity[2]), point[2])>>

\* the matrix applied to the point (x, y, 1): the first two entries
Applied(matrix, point) ==
    [i \in 1..2 |->
        RAdd(RAdd(RMul(matrix[i][1], point[1]), RMul(matrix[i][2], point[2])),
             matrix[i][3])]

\* LaPDXYTransform._validate_inputs: negative distances become their
\* absolute value
_validate_transform_inputs(inputs) ==
    [inputs EXCEPT !.pivot_to_center = Abs(inputs.pivot_to_center),
                   !.pivot_to_drive = Abs(inputs.pivot_to_drive),
                   !.probe_axis_offset = Abs(inputs.probe_axis_offset)]

\* LaPDXYTransform._matrix_to_drive for one point of the motion space
_matrix_to_drive(inputs, point) ==
    LET pivot_to_center == RInt(inputs.pivot_to_center)
        pivot_to_drive == RInt(inputs.pivot_to_drive)
        probe_axis_offset == RInt(inputs.probe_axis_offset)
        points == Flipped(inputs.mspace_polarity, point)
        tan_theta == RDiv(points[2], RAdd(points[1], pivot_to_center))
        theta == AngleNeg(Arctan(tan_theta))
        T0 == <<<<RInt(0), RInt(0),
                  RSub(RSqrt(RAdd(RMul(points[2], points[2]),
                                  RMul(RAdd(pivot_to_center, points[1]),
                                       RAdd(pivot_to_center, points[1])))),
                       pivot_to_center)>>,
                <<RInt(0), RInt(0),
                  RAdd(RMul(pivot_to_drive, Tan(theta)),
                       RMul(probe_axis_offset,
                            RSub(RInt(1), RDiv(RInt(1), theta.cos))))>>,
                <<RInt(0), RInt(0), RInt(1)>>>>
    IN  MatMul(Diag(inputs.drive_polarity),
               MatMul(T0, Diag(inputs.mspace_polarity)))

\* LaPDXYTransform._matrix_to_motion_space for one point of the drive
_matrix_to_motion_space(inputs, point) ==
    LET pivot_to_center == RInt(inputs.pivot_to_center)
        pivot_to_drive == RInt(inputs.pivot_to_drive)
        probe_axis_offset == RInt(inputs.probe_axis_offset)
        points == Flipped(inputs.drive_polarity, point)
        rise == RAdd(RNeg(probe_axis_offset), points[2])
        sine_alpha ==
            RDiv(probe_axis_offset,
                 RSqrt(RAdd(RMul(pivot_to_drive, pivot_to_drive),
                            RMul(rise, rise))))
        tan_beta == RDiv(rise, RNeg(pivot_to_drive))
        theta == AngleSub(Arctan(tan_beta), Arcsin(sine_alpha))
        T0 == <<<<theta.cos, RInt(0),
                  RMul(RNeg(pivot_to_center), RSub(RInt(1), theta.cos))>>,
                <<theta.sin, RInt(0), RMul(pivot_to_center, theta.sin)>>,
                <<RInt(0), RInt(0), RInt(1)>>>>
    IN  MatMul(Diag(inputs.mspace_polarity),
               MatMul(T0, Diag(inputs.drive_polarity)))

\* every square root of _matrix_to_drive at the point is a fraction, and
\* the point is not straight above or below the pivot
DriveRoots(inputs, point) ==
    LET points == Flipped(inputs.mspace_polarity, point)
        across == RAdd(points[1], RInt(inputs.pivot_to_center))
    IN  /\ across[1] /= 0
        /\ HasRSqrt(RAdd(RMul(points[2], points[2]), RMul(across, across)))
        /\ HasRSqrt(RAdd(RInt(1), RMul(RDiv(points[2], across),
                                       RDiv(points[2], across))))

\* every square root of _matrix_to_motion_space at the point is a fraction
MotionSpaceRoots(inputs, point) ==
    LET points == Flipped(inputs.drive_polarity, point)
        rise == RAdd(RNeg(RInt(inputs.probe_axis_offset)), points[2])
        reach == RAdd(RInt(inputs.pivot_to_drive * inputs.pivot_to_drive),
                      RMul(rise, rise))
        tan_beta == RDiv(rise, RNeg(RInt(inputs.pivot_to_drive)))
    IN  /\ HasRSqrt(reach)
        /\ HasRSqrt(RAdd(RInt(1), RMul(tan_beta, tan_beta)))
        /\ HasRSqrt(RSub(RInt(1),
                         RDiv(RInt(inputs.probe_axis_offset
                                     * inputs.probe_axis_offset), reach)))

\* the keyword arguments of LaPDXYTransform: distances (a negative offset is
\* taken by its absolute value, pivot_to_drive is not zero) and polarities
TransformInputs ==
    [pivot_to_center : {0, 5}, pivot_to_drive : {5, 15},
     probe_axis_offset : {0, -3, 7, 8},
     drive_polarity : {<<1, 1>>, <<1, -1>>},
     mspace_polarity : {<<-1, 1>>, <<1, 1>>}]

\* the points of the motion space that are converted
TransformPoints ==
    {<<RInt(x), RInt(y)>> :
        x \in {-9, -8, -4, -3, -1, 1, 3, 4, 7, 8}, y \in {-4, -3, 0, 3, 4}}

\* no transform
NoTransform ==
    [inputs |-> <<>>, point |-> <<>>, state |-> "none", drive |-> <<>>,
     back |-> <<>>]

\* a transform, after the validation of its inputs, and a point
TransformCalls ==
    {[NoTransform EXCEPT !.inputs = _validate_transform_inputs(inputs),
                         !.point = point, !.state = "new"] :
        inputs \in TransformInputs, point \in TransformPoints}

\* the transforms and points whose images are fractions
TransformCases ==
    {call \in TransformCalls :
        /\ DriveRoots(call.inputs, call.point)
        /\ MotionSpaceRoots(call.inputs,
                            Applied(_matrix_to_drive(call.inputs, call.point),
                                    call.point))}

\* the conversion of the point to drive coordinates
ToDrive ==
    /\ transform.state = "new"
    /\ transform' =
          [transform EXCEPT
              !.state = "drive",
              !.drive = Applied(_matrix_to_drive(transform.inputs,
                                                 transform.point),
                                transform.point)]
    /\ UNCHANGED <<motorVars, ownVars, exVars, gridVars, lapdVars, managerVars,
                   axisVars, commandVars>>

\* the conversion of the drive coordinates back to the motion space
ToMotionSpace ==
    /\ transform.state = "drive"
    /\ transform' =
          [transform EXCEPT
              !.state = "back",
              !.back = Applied(_matrix_to_motion_space(transform.inputs,
                                                       transform.drive),
                               transform.drive)]
    /\ UNCHANGED <<motorVars, ownVars, exVars, gridVars, lapdVars, managerVars,
                   axisVars, commandVars>>

-----------------------------------------------------------------------------
(* Grid layers (GridLayer, GridCNStepLayer).  Coordinates are held in        *)
(* halves, so that 0.5 * (npoints - 1) * step_size is a whole number; a      *)
(* point of np.linspace is a fraction <<numerator, denominator>> of halves.  *)

\* the dimensionality of the motion space of the dataset
mspace_ndims == 2

\* the numbers given as limits and centers: 0, 5, 10 and 20
LimitValues == {0, 10, 20, 40}
CenterValues == {0, 10}

\* the numbers given as step sizes: 0 and 1
StepValues == {0, 2}

\* np.issubdtype(dtype, np.floating), np.issubdtype(dtype, np.integer)
IsFloating(dtype) == dtype \in {"float32", "float64"}
IsInteger(dtype) == dtype \in {"int32", "int64"}

\* the test of `limits.dtype` in _validate_limits
DtypeRejected(dtype) == ~IsFloating(dtype) \/ ~IsInteger(dtype)

\* limits.sort(axis=1)
SortPairs(limits) ==
    [i \in 1..Len(limits) |->
        IF limits[i][1] <= limits[i][2] THEN limits[i]
        ELSE <<limits[i][2], limits[i][1]>>]

\* np.repeat of a single entry across the dimensions of the motion space
Repeat(a) == IF Len(a) = 1 THEN [i \in 1..mspace_ndims |-> a[1]] ELSE a

\* GridLayer._validate_limits on a list of pairs, forced to float64
_validate_limits(limits, dtype) ==
    IF DtypeRejected(dtype)
    THEN [error |-> "ValueError: dtype", limits |-> limits]
    ELSE IF Len(limits) \notin {1, mspace_ndims}
    THEN [error |-> "ValueError: number of limits", limits |-> limits]
    ELSE IF \E i \in 1..Len(limits) : limits[i][1] = limits[i][2]
    THEN [error |-> "ValueError: pairs are equal", limits |-> limits]
    ELSE [error |-> "", limits |-> Repeat(SortPairs(limits))]

\* GridLayer._validate_npoints on a list forced to int32
_validate_npoints(npoints) ==
    IF Len(npoints) \notin {1, mspace_ndims}
    THEN [error |-> "ValueError: size of npoints", npoints |-> npoints]
    ELSE IF \E i \in 1..Len(npoints) : npoints[i] <= 0
    THEN [error |-> "ValueError: npoints not positive", npoints |-> npoints]
    ELSE [error |-> "", npoints |-> Repeat(npoints)]

\* np.linspace(lo, hi, num=num)
Linspace(lo, hi, num) ==
    [i \in 1..num |->
        IF num = 1 THEN <<lo, 1>>
        ELSE <<lo * (num - 1) + (i - 1) * (hi - lo), num - 1>>]

\* the `num` of an axis in _generate_point_matrix
AxisNum(lims, num) == IF lims[1] = lims[2] THEN 1 ELSE num

\* GridLayer._generate_point_matrix: np.meshgrid(*axs, indexing="ij")
\* stacked along a last dimension
_generate_point_matrix(limits, npoints) ==
    LET axs == [a \in 1..mspace_ndims |->
                   Linspace(limits[a][1], limits[a][2],
                            AxisNum(limits[a], npoints[a]))]
    IN  [idx \in (1..Len(axs[1])) \X (1..Len(axs[2])) |->
            <<axs[1][idx[1]], axs[2][idx[2]]>>]

\* no layer
NoLayer ==
    [type |-> "none", limits |-> <<>>, npoints |-> <<>>, center |-> <<>>,
     step_size |-> <<>>, state |-> "none", error |-> "", points |-> <<>>]

\* the arguments GridLayer is constructed with
GridArgs ==
    {[NoLayer EXCEPT !.type = "grid", !.state = "new",
                     !.limits = limits, !.npoints = npoints] :
        limits \in UNION {[1..k -> LimitValues \X LimitValues] : k \in 1..2},
        npoints \in UNION {[1..k -> 0..MaxNpoints] : k \in 1..2}}

\* the arguments GridCNStepLayer is constructed with
GridCNStepArgs ==
    {[NoLayer EXCEPT !.type = "grid_CNStep", !.state = "new",
                     !.center = center, !.npoints = npoints,
                     !.step_size = step_size] :
        center \in [1..mspace_ndims -> CenterValues],
        npoints \in UNION {[1..k -> 0..MaxNpoints] : k \in 1..2},
        step_size \in UNION {[1..k -> StepValues] : k \in 1..2}}

\* the layer after _validate_inputs and the generation of its points
Built(l, limits, npoints) ==
    [l EXCEPT !.state = "built", !.limits = limits, !.npoints = npoints,
              !.points = _generate_point_matrix(limits, npoints)]

Raised(l, error) == [l EXCEPT !.state = "raised", !.error = error]

\* GridLayer.__init__: _validate_inputs and the generation of the points
GridLayerInit ==
    /\ layer.type = "grid"
    /\ layer.state = "new"
    /\ LET limits == _validate_limits(layer.limits, "float64")
           npoints == _validate_npoints(layer.npoints)
       IN  layer' = IF limits.error /= "" THEN Raised(layer, limits.error)
                    ELSE IF npoints.error /= ""
                    THEN Raised(layer, npoints.error)
                    ELSE Built(layer, limits.limits, npoints.npoints)
    /\ UNCHANGED <<motorVars, ownVars, exVars, otherVars>>

\* GridCNStepLayer.__init__: the limits are center -+ 0.5 * (npoints - 1) *
\* step_size and go through _validate_limits
GridCNStepLayerInit ==
    /\ layer.type = "grid_CNStep"
    /\ layer.state = "new"
    /\ LET npoints == _validate_npoints(layer.npoints)
           step_size == Repeat(layer.step_size)
           half(a) == ((npoints.npoints[a] - 1) * step_size[a]) \div 2
           derived == [a \in 1..mspace_ndims |->
                          <<layer.center[a] - half(a),
                            layer.center[a] + half(a)>>]
       IN  layer' =
             IF npoints.error /= "" THEN Raised(layer, npoints.error)
             ELSE LET limits == _validate_limits(derived, "float64")
                  IN  IF limits.error /= ""
                      THEN Raised([layer EXCEPT !.limits = derived,
                                                !.step_size = step_size],
                                  limits.error)
                      ELSE Built([layer EXCEPT !.step_size = step_size],
                                 limits.limits, npoints.npoints)
    /\ UNCHANGED <<motorVars, ownVars, exVars, otherVars>>

-----------------------------------------------------------------------------
(* The command table of Motor and send_command.  Strings that are built or  *)
(* matched are sequences of characters.                                      *)

\* the characters "0" to "9"
DigitChars == <<"0", "1", "2", "3", "4", "5", "6", "7", "8", "9">>

\* the character class [0-9]
DigitClass == {DigitChars[i] : i \in DOMAIN DigitChars}

\* the value of one decimal digit
DigitValue(c) == CHOOSE d \in 0..9 : DigitChars[d + 1] = c

RECURSIVE NatStr(_)
\* str(n) of a natural number
NatStr(n) ==
    IF n < 10 THEN <<DigitChars[n + 1]>>
    ELSE NatStr(n \div 10) \o <<DigitChars[(n % 10) + 1]>>

RECURSIVE NatOf(_)
\* int(s) of a string of decimal digits
NatOf(s) ==
    IF s = <<>> THEN 0
    ELSE 10 * NatOf(SubSeq(s, 1, Len(s) - 1)) + DigitValue(s[Len(s)])

\* int(s) of an optional minus sign and decimal digits
IntOf(s) == IF s[1] = "-" THEN 0 - NatOf(Tail(s)) ELSE NatOf(s)

\* what "{}" is replaced with by str.format: str(value)
StrOf(value) ==
    CASE value[1] = "int" ->
            IF value[2] < 0 THEN <<"-">> \o NatStr(0 - value[2])
            ELSE NatStr(value[2])
      [] value[1] = "str" -> IF value[2] = "" THEN <<>> ELSE <<value[2]>>

\* msg.format(value): the first "{}" of the template becomes str(value); a
\* template without a replacement field is left as it is
Format(template, value) ==
    LET fields == {i \in 1..(Len(template) - 1) :
                      template[i] = "{" /\ template[i + 1] = "}"}
    IN  IF fields = {} THEN template
        ELSE LET i == CHOOSE j \in fields : \A k \in fields : j <= k
             IN  SubSeq(template, 1, i - 1) \o StrOf(value)
                     \o SubSeq(template, i + 2, Len(template))

\* a compiled pattern `XX=(?P<return>-?[class]{min,max})`; max 0 is "+"
Pattern(prefix, sign, class, min, max) ==
    <<"re", prefix, sign, class, min, max>>

\* Motor._commands, with `_commands["set_distance"] = _commands["set_position"]`
_commands ==
    [alarm |-> [send |-> <<"A", "L">>,
                recv |-> Pattern(<<"A", "L", "=">>, FALSE, DigitClass, 4, 4)],
     alarm_reset |-> [senf |-> <<"A", "R">>, recv |-> None],
     disable |-> [send |-> <<"M", "D">>, recv |-> None],
     enable |-> [send |-> <<"M", "E">>, recv |-> None],
     encoder_resolution |->
         [send |-> <<"E", "R">>,
          recv |-> Pattern(<<"E", "R", "=">>, FALSE, DigitClass, 1, 0),
          recv_processor |-> "int"],
     gearing |->
         [send |-> <<"E", "G">>,
          recv |-> Pattern(<<"E", "G", "=">>, FALSE, DigitClass, 1, 0),
          recv_processor |-> "int"],
     get_position |->
         [send |-> <<"I", "P">>,
          recv |-> Pattern(<<"I", "P", "=">>, TRUE, DigitClass, 1, 0),
          recv_processor |-> "int"],
     request_status |->
         [send |-> <<"R", "S">>,
          recv |-> Pattern(<<"R", "S", "=">>, FALSE, StatusLetters, 1, 0)],
     set_position |->
         [send |-> <<"D", "I", "{", "}">>, send_processor |-> "int",
          recv |-> None],
     stop |-> [send |-> <<"S", "K">>, recv |-> None],
     set_distance |->
         [send |-> <<"D", "I", "{", "}">>, send_processor |-> "int",
          recv |-> None]]

\* the group "return" of recv_pattern.fullmatch(recv_str), or None
Fullmatch(pattern, recv_str) ==
    LET prefix == pattern[2]
        body == SubSeq(recv_str, Len(prefix) + 1, Len(recv_str))
        digits == IF pattern[3] /\ body /= <<>> /\ body[1] = "-"
                  THEN Tail(body) ELSE body
    IN  IF /\ Len(recv_str) >= Len(prefix)
           /\ SubSeq(recv_str, 1, Len(prefix)) = prefix
           /\ \A i \in DOMAIN digits : digits[i] \in pattern[4]
           /\ Len(digits) >= pattern[5]
           /\ (pattern[6] = 0 \/ Len(digits) <= pattern[6])
        THEN <<"match", body>>
        ELSE None

\* int(value) of the send processor: an int as it is; a str that is not a
\* number raises ValueError
IsIntLike(value) == value[1] = "int"

\* names that send_command may be called with and that are no key of the table
OtherNames == {"home"}

\* the positional arguments after the command name
CommandArgs ==
    {<<>>, <<PyInt(0)>>, <<PyInt(0 - 5)>>, <<PyInt(12)>>, <<PyStr("x")>>}

\* what the controller may answer to one request
CommandReplies ==
    {<<>>,
     <<"%">>,
     <<"A", "L", "=", "0", "0", "0", "2">>,
     <<"A", "L", "=", "2">>,
     <<"E", "R", "=", "2", "0", "0">>,
     <<"E", "G", "=", "4">>,
     <<"I", "P", "=", "-", "5">>,
     <<"I", "P", "=", "1", "2">>,
     <<"R", "S", "=", "R", "P">>,
     <<"R", "S", "=", "X">>}

\* no call has been made
NoCommand ==
    [state |-> "none", command |-> "", args |-> <<>>, reply |-> <<>>,
     sent |-> <<>>, error |-> "", returned |-> None]

\* the calls of send_command that are followed
SendCalls ==
    {[NoCommand EXCEPT !.state = "new", !.command = name, !.args = args,
                       !.reply = reply] :
        name \in (DOMAIN _commands) \cup OtherNames,
        args \in CommandArgs, reply \in CommandReplies}

\* the call raised before _send_raw_command was reached
RaisedUnsent(call, error) ==
    [call EXCEPT !.state = "raised", !.error = error, !.reply = <<>>]

\* Motor.send_command(command, *args), the controller answering with reply
send_command(call) ==
    IF call.command \notin DOMAIN _commands
    THEN RaisedUnsent(call, "KeyError")
    ELSE
    LET entry == _commands[call.command]
    IN  IF "send" \notin DOMAIN entry THEN RaisedUnsent(call, "KeyError")
        ELSE
        LET given == IF Len(call.args) > 0 THEN call.args[1] ELSE PyStr("")
            processed == "send_processor" \in DOMAIN entry
        IN  IF processed /\ ~IsIntLike(given)
            THEN RaisedUnsent(call, "ValueError")
            ELSE
            LET request == Format(entry.send, given)
                recv_str == call.reply
                matched == IF entry.recv[1] = "None" THEN <<"match", recv_str>>
                           ELSE Fullmatch(entry.recv, recv_str)
            IN  IF matched[1] = "None"
                THEN [call EXCEPT !.state = "raised", !.sent = request,
                                  !.error = "AttributeError"]
                ELSE [call EXCEPT
                         !.state = "returned", !.sent = request,
                         !.returned =
                             IF "recv_processor" \in DOMAIN entry
                             THEN PyInt(IntOf(matched[2]))
                             ELSE <<"str", matched[2]>>]

\* one call of Motor.send_command
SendCommand ==
    /\ command.state = "new"
    /\ command' = send_command(command)
    /\ UNCHANGED <<motorVars, ownVars, exVars, gridVars, lapdVars, managerVars,
                   axisVars, transformVars>>

-----------------------------------------------------------------------------
(* Specifications.                                                           *)

\* the status once Motor.connect has returned in __init__
ConnectedStatus == Merge(DefaultStatus, [connected |-> True])

StatusInit ==
    /\ status = ConnectedStatus
    /\ ppc = "idle"
    /\ rtn = <<>>
    /\ lstatus = NullStatus
    /\ alarmRtn = <<0, 0, 0, 0>>
    /\ pollEmits = 0
    /\ polls = 0
    /\ lastUpdate = [called |-> FALSE, old |-> ConnectedStatus,
                     values |-> <<>>, emits |-> 0,
                     changed |-> <<>>, received |-> <<>>, seen |-> <<>>]

\* no call of Motor.recv is being followed
RecvIdle ==
    /\ stream = <<>>
    /\ rpos = 0
    /\ msg = <<>>
    /\ rstate = "idle"

\* Motor.recv is entered with a reply on its way
RecvInit ==
    /\ stream \in Streams
    /\ rpos = 0
    /\ msg = <<>>
    /\ rstate = "reading"

\* the motor is constructed and its event loop runs in its thread
SockInit ==
    /\ proc = [p \in Procs |-> ProcIdle(IF p = "hb" THEN "sleep" ELSE "idle")]
    /\ sock = "open"
    /\ wire = <<>>
    /\ hbStep = 0
    /\ drops = 0
    /\ calls = 0
    /\ beats = 0
    /\ misdelivered = FALSE
    /\ heartrate = 0
    /\ slept = [called |-> FALSE, rate |-> 0, moving |-> None]
    /\ tasks = {"hb"}
    /\ cancelled = FALSE
    /\ loopStop = FALSE

\* the class body of Motor has been executed, no instance exists
OwnInit ==
    /\ _config = [ip |-> None]
    /\ _settings = [socket |-> None, tasks |-> None]
    /\ motors = <<>>
    /\ sockets = <<>>
    /\ sent = [called |-> FALSE, motor |-> 0, socket |-> 0, peer |-> ""]

\* the dataset of a new motion builder: the global mask allows every point
ExInit ==
    /\ ds = [k \in {mask_name} |-> AllAllowed]
    /\ exs = <<>>
    /\ pending = {}
    /\ exCalls = 0
    /\ exLast = [op |-> "none", ex |-> 0, raised |-> FALSE]

\* no layer is being constructed
GridIdle == layer = NoLayer

\* a grid layer is about to be constructed, with any of the arguments
GridInit == layer \in GridArgs \cup GridCNStepArgs

\* no LaPD exclusion is being constructed
LapdIdle == lapd = NoLapd

\* a LaPD exclusion is about to be constructed, with any of the arguments
LapdInit == lapd \in {[NoLapd EXCEPT !.args = args, !.state = "new"] :
                         args \in LapdArgs}

\* no run configuration is being validated
ManagerIdle == manager = NoManager

\* a run configuration is about to be validated, with any motion groups
ManagerInit ==
    manager \in {[NoManager EXCEPT !.given = mg, !.state = "new"] :
                    mg \in CollectedConfigs}

\* no Axis is called
AxisIdle == axis = NoAxis

\* a call on an Axis is about to be made
AxisInit == axis \in SendCommandCalls \cup ConversionCalls

\* no point is being converted
TransformIdle == transform = NoTransform

\* a point is about to be converted by a transform
TransformInit == transform \in TransformCases

\* no command is being sent through the command table
CommandIdle == command = NoCommand

\* a call of Motor.send_command is about to be made
CommandInit == command \in SendCalls

\* no object is being constructed or called
OtherIdle ==
    LapdIdle /\ ManagerIdle /\ AxisIdle /\ TransformIdle /\ CommandIdle

OuterInit == OwnInit /\ ExInit /\ GridIdle /\ OtherIdle

Init == StatusInit /\ RecvIdle /\ SockInit /\ OuterInit

\* the first status poll, made by __init__, for every reply
NextDecode ==
    \/ PollRequestStatus(StatusReplies(MaxStatusLen), 1)
    \/ PollGetPosition
    \/ PollAlarm
    \/ PollUpdate

SpecDecode == Init /\ [][NextDecode]_vars

\* repeated polls, with other status updates in between
NextStatus ==
    \/ PollRequestStatus(PollReplies, MaxPolls)
    \/ PollGetPosition
    \/ PollAlarm
    \/ PollUpdate
    \/ GetPosition
    \/ RetrieveMotorAlarm

SpecStatus == Init /\ [][NextStatus]_vars

InitRecv == StatusInit /\ RecvInit /\ SockInit /\ OuterInit

\* one call of Motor.recv, for every way the reply is cut into reads
NextRecv ==
    \/ RecvRead
    \/ RecvTimeout

SpecRecv == InitRecv /\ [][NextRecv]_vars

\* a foreground command and the heartbeat on one socket
NextMotor ==
    \/ FgCall
    \/ HbBeat
    \/ HbNext
    \/ HbRaise
    \/ LinkDrop
    \/ \E p \in Procs : Send(p)
    \/ \E p \in Procs : ConnectAttempt(p)
    \/ \E p \in Procs : Resend(p)
    \/ \E p \in Procs : Recv(p)

SpecMotor == Init /\ [][NextMotor]_vars

\* the heartbeat alone on the socket, and a call of stop_running
NextHeart ==
    \/ HbBeat
    \/ HbNext
    \/ HbRaise
    \/ HbCancelled
    \/ LinkDrop
    \/ StopRunning
    \/ Send("hb")
    \/ ConnectAttempt("hb")
    \/ Resend("hb")
    \/ Recv("hb")

SpecHeart == Init /\ [][NextHeart]_vars

\* several Motor instances in one process
NextOwn ==
    \/ \E ip \in Addresses : MotorInit(ip)
    \/ \E m \in 1..MaxMotors : MotorSend(m)

SpecOwn == Init /\ [][NextOwn]_vars

\* exclusions constructed, changed and regenerated on one dataset
NextEx ==
    \/ \E type \in {"circular", "lapd-XY"}, skip_ds_add \in BOOLEAN :
          \E inputs \in ExInputs(type) :
              ExclusionInit(type, skip_ds_add, inputs)
    \/ \E e \in 1..MaxExclusions, type \in {"circular", "lapd-XY"} :
          \E inputs \in ExInputs(type) : SetInputs(e, inputs)
    \/ \E e \in 1..MaxExclusions : RegenerateExclusion(e)
    \/ \E e \in 1..MaxExclusions : UpdateGlobalMask(e)

SpecEx == Init /\ [][NextEx]_vars

InitGrid ==
    StatusInit /\ RecvIdle /\ SockInit /\ OwnInit /\ ExInit /\ GridInit /\ OtherIdle

\* the construction of one grid layer
NextGrid ==
    \/ GridLayerInit
    \/ GridCNStepLayerInit

SpecGrid == InitGrid /\ [][NextGrid]_vars

InitLapd ==
    /\ StatusInit /\ RecvIdle /\ SockInit /\ OwnInit /\ ExInit /\ GridIdle
    /\ LapdInit /\ ManagerIdle /\ AxisIdle /\ TransformIdle
    /\ CommandIdle

\* the construction of one LaPD exclusion
NextLapd == LaPDXYExclusionInit

SpecLapd == InitLapd /\ [][NextLapd]_vars

InitManager ==
    /\ StatusInit /\ RecvIdle /\ SockInit /\ OwnInit /\ ExInit /\ GridIdle
    /\ LapdIdle /\ ManagerInit /\ AxisIdle /\ TransformIdle
    /\ CommandIdle

\* the validation of one run configuration
NextManager == ValidateConfig

SpecManager == InitManager /\ [][NextManager]_vars

InitAxis ==
    /\ StatusInit /\ RecvIdle /\ SockInit /\ OwnInit /\ ExInit /\ GridIdle
    /\ LapdIdle /\ ManagerIdle /\ AxisInit /\ TransformIdle
    /\ CommandIdle

\* one command sent through an Axis, or the conversions of one quantity
NextAxis ==
    \/ AxisSendCommand
    \/ \E unit \in Units : AxisTo(unit)

SpecAxis == InitAxis /\ [][NextAxis]_vars

InitTransform ==
    /\ StatusInit /\ RecvIdle /\ SockInit /\ OwnInit /\ ExInit /\ GridIdle
    /\ LapdIdle /\ ManagerIdle /\ AxisIdle /\ TransformInit
    /\ CommandIdle

\* a point of the motion space is taken to the drive and back
NextTransform ==
    \/ ToDrive
    \/ ToMotionSpace

SpecTransform == InitTransform /\ [][NextTransform]_vars

InitCommand ==
    /\ StatusInit /\ RecvIdle /\ SockInit /\ OwnInit /\ ExInit /\ GridIdle
    /\ LapdIdle /\ ManagerIdle /\ AxisIdle /\ TransformIdle
    /\ CommandInit

\* one command looked up in the table, sent and answered
NextCommand == SendCommand

SpecCommand == InitCommand /\ [][NextCommand]_vars

-----------------------------------------------------------------------------
(* Properties of the status decode (SpecDecode).                             *)

HasLetter(s, c) == \E i \in 1..Len(s) : s[i] = c

\* the last of the letters D and R in s is an R
LastEnableIsR(s) ==
    \E i \in 1..Len(s) :
        /\ s[i] = "R"
        /\ \A j \in (i + 1)..Len(s) : s[j] \notin {"D", "R"}

HasUnrecognized(s) == \E i \in 1..Len(s) : s[i] \notin StatusLetters

\* C6: after a completed status poll every flag follows the letter table:
\* alarm iff A occurs, fault iff E, moving iff F, homing iff H, jogging iff J,
\* motion_in_progress iff M, in_position iff P, stopping iff S, waiting iff
\* T or W occurs, and enabled iff the last D/R letter is an R.
C6_StatusTable ==
    ppc = "done" =>
        /\ status["alarm"] = PyBool(HasLetter(rtn, "A"))
        /\ status["fault"] = PyBool(HasLetter(rtn, "E"))
        /\ status["moving"] = PyBool(HasLetter(rtn, "F"))
        /\ status["homing"] = PyBool(HasLetter(rtn, "H"))
        /\ status["jogging"] = PyBool(HasLetter(rtn, "J"))
        /\ status["motion_in_progress"] = PyBool(HasLetter(rtn, "M"))
        /\ status["in_position"] = PyBool(HasLetter(rtn, "P"))
        /\ status["stopping"] = PyBool(HasLetter(rtn, "S"))
        /\ status["waiting"] = PyBool(HasLetter(rtn, "T") \/ HasLetter(rtn, "W"))
        /\ status["enabled"] = PyBool(LastEnableIsR(rtn))

\* a poll of "RTD" has completed: the D after the R disabled, T set waiting
C6_Witness ==
    /\ ppc = "done"
    /\ rtn = <<"R", "T", "D">>
    /\ status["enabled"] = False
    /\ status["waiting"] = True

OtherFlagsFalse(st, keys) == \A k \in FlagKeys \ keys : st[k] = False

\* C8 as claimed: decoding "RPF" gives enabled=True, moving=False,
\* fault=False and every other flag false.
C8_DecodeRPF_Claimed ==
    (ppc = "done" /\ rtn = <<"R", "P", "F">>) =>
        /\ status["enabled"] = True
        /\ status["moving"] = False
        /\ status["fault"] = False
        /\ OtherFlagsFalse(status, {"enabled", "moving", "fault"})

\* C8 as amended: decoding "RPF" gives enabled=True, in_position=True,
\* moving=True, fault=False and every other flag false.
C8_DecodeRPF ==
    (ppc = "done" /\ rtn = <<"R", "P", "F">>) =>
        /\ status["enabled"] = True
        /\ status["in_position"] = True
        /\ status["moving"] = True
        /\ status["fault"] = False
        /\ OtherFlagsFalse(status, {"enabled", "in_position", "moving"})

\* the poll of "RPF" has completed
C8_Witness ==
    /\ ppc = "done"
    /\ rtn = <<"R", "P", "F">>
    /\ lastUpdate.called
    /\ status["position"] \in {PyInt(pos) : pos \in Positions}

-----------------------------------------------------------------------------
(* Properties of the status update (SpecStatus).                             *)

C10_EmitIffChanged ==
    lastUpdate.called =>
        LET old == lastUpdate.old
            values == lastUpdate.values
            differs == \E k \in DOMAIN values :
                           k \notin DOMAIN old \/ old[k] /= values[k]
        IN  /\ lastUpdate.emits = IF differs THEN 1 ELSE 0
            /\ \A k \in DOMAIN values : status[k] = values[k]
            /\ \A k \in DOMAIN old \ DOMAIN values : status[k] = old[k]

\* a second poll has applied a status equal to the current one: no event
C10_Witness ==
    /\ ppc = "done"
    /\ polls = 2
    /\ lastUpdate.called
    /\ lastUpdate.values = lstatus
    /\ lastUpdate.emits = 0
    /\ pollEmits = 0

\* C11: the change event of update_status carries the changed fields: a
\* subscribed handler of an update that emitted is called with a dict holding
\* exactly the fields whose value differs between the old and the new status.
C11_PayloadIsChanged ==
    (lastUpdate.called /\ lastUpdate.emits = 1) =>
        /\ Len(lastUpdate.received) = 1
        /\ lastUpdate.received[1][1] = "dict"
        /\ lastUpdate.received[1][2] = lastUpdate.changed

-----------------------------------------------------------------------------
(* Properties of Motor.recv (SpecRecv).                                      *)

\* s holds a header and, after it, an end of message
HasFrame(s) ==
    /\ Contains(s, _header)
    /\ Find(s, _eom, Find(s, _header, 1) + Len(_header)) /= 0

\* the bytes between the first header of s and the first end of message
\* after it
FramedPayload(s) ==
    LET h == Find(s, _header, 1)
        e == Find(s, _eom, h + Len(_header))
    IN  SubSeq(s, h + Len(_header), e - 1)

\* C5: Motor.recv returns the payload between the first header and the first
\* following 0x0D, however the stream is cut into reads.
C5_RecvPayload ==
    (rstate = "returned" /\ HasFrame(stream)) => msg = FramedPayload(stream)

-----------------------------------------------------------------------------
(* Properties of the shared socket (SpecMotor).                              *)

\* C1: the first failed send of a foreground command marks the motor
\* disconnected and starts the command's only reconnect; the request is sent
\* again once the reconnect has succeeded, and only once; a second failed
\* send raises, with no further reconnect or send.
C1_OneReconnectOneResend ==
    [][LET old == proc["fg"]
           new == proc'["fg"]
       IN  /\ (old.sendFails = 0 /\ new.sendFails = 1) =>
                /\ status'["connected"] = False
                /\ new.pc = "connect"
                /\ new.connects = 1
           /\ new.connects <= 1
           /\ new.sends <= 2
           /\ (new.sendFails >= 1 /\ new.pc \in {"recv", "returned"}) =>
                (new.sends = 2 /\ new.sendFails = 1 /\ new.outcome = "ok")
           /\ new.sendFails = 2 =>
                (new.pc = "raised" /\ new.sends = 2 /\ new.connects = 1)
           /\ (old.pc = "raised" /\ new /= old) => new = ProcIdle("send")
      ]_vars

\* the foreground command failed to send twice and has raised
C1_Witness ==
    /\ proc["fg"].pc = "raised"
    /\ proc["fg"].sendFails = 2
    /\ proc["fg"].sends = 2
    /\ proc["fg"].connects = 1
    /\ proc["fg"].outcome = "ok"

\* C2: the foreground caller and the heartbeat never both have a request
\* sent and its reply unread, and every reply is read by its requester.
C2_SocketExclusive ==
    /\ ~(proc["fg"].pc = "recv" /\ proc["hb"].pc = "recv")
    /\ ~misdelivered

\* C3: Motor.connect makes at most max_connection_attempts attempts; it
\* returns at the first attempt that succeeds, with connected=True and an
\* open socket; it goes round again only after a caught error with attempts
\* left; otherwise it raises.
C3_ConnectBounded ==
    [][\A p \in Procs :
        LET old == proc[p]
            new == proc'[p]
        IN  /\ new.attempts <= MaxConnectionAttempts
            /\ (old.pc = "connect" /\ new /= old) =>
                /\ new.attempts = old.attempts + 1
                /\ new.pc \in {"connect", "resend", "raised"}
                /\ new.pc = "resend" <=> new.outcome = "ok"
                /\ new.pc = "resend" =>
                       (status'["connected"] = True /\ sock' = "open")
                /\ new.pc = "connect" <=>
                       (new.outcome = "refused"
                            /\ new.attempts < MaxConnectionAttempts)
                /\ new.pc = "raised" <=>
                       \/ new.outcome = "oserror"
                       \/ (new.outcome = "refused"
                            /\ new.attempts = MaxConnectionAttempts)
      ]_vars

\* every attempt of a foreground reconnect was refused: the last error is raised
C3_Witness ==
    /\ proc["fg"].pc = "raised"
    /\ proc["fg"].attempts = MaxConnectionAttempts
    /\ proc["fg"].outcome = "refused"
    /\ status["connected"] = False

\* C4: an error raised inside a heartbeat status poll does not end the
\* heartbeat task.
C4_HeartbeatSurvivesError ==
    [][proc["hb"].pc = "raised" => proc'["hb"].pc /= "finished"]_vars

-----------------------------------------------------------------------------
(* Properties of the heartbeat (SpecHeart).                                  *)

C13_NoPollAfterStop ==
    [][/\ loopStop' => (cancelled' /\ tasks' = {})
       /\ (~loopStop /\ loopStop') => sock' = "closed"
       /\ loopStop => Len(wire') <= Len(wire)]_vars

-----------------------------------------------------------------------------
(* Properties of Motor instances (SpecOwn).                                  *)

DistinctIps ==
    \A a, b \in 1..Len(motors) : a /= b => motors[a].ip /= motors[b].ip

\* C14: with Motor instances constructed for different addresses, the ip,
\* the socket and the task list of each instance are the ones it was
\* constructed with, and a command sent through an instance goes out on that
\* instance's socket to that instance's address.
C14_OwnConnection ==
    DistinctIps =>
        /\ \A m \in 1..Len(motors) :
               /\ MotorIp(m) = PyStr(motors[m].ip)
               /\ MotorSocket(m) = PySocket(motors[m].socket)
               /\ MotorTasks(m) = PyList(<<motors[m].task>>)
        /\ sent.called =>
               /\ sent.socket = motors[sent.motor].socket
               /\ sent.peer = motors[sent.motor].ip

-----------------------------------------------------------------------------
(* Properties of the exclusions on the shared dataset (SpecEx).              *)

\* the exclusions registered in the dataset
Attached == {e \in 1..Len(exs) : ~exs[e].skip_ds_add}

AndOfExclusions ==
    [p \in Points |-> \A e \in Attached : ds[exs[e].name][p]]

\* C15: once every regenerated exclusion has been merged by
\* update_global_mask, the global mask is the element-wise AND of the arrays
\* the registered exclusions have in the dataset.
C15_MaskIsAndOfExclusions ==
    pending = {} => ds[mask_name] = AndOfExclusions

\* C16: the construction of a detached exclusion (skip_ds_add) leaves the
\* dataset, and with it the global mask, as it was; regenerate_exclusion and
\* update_global_mask called on it raise and leave the dataset as it was.
C16_DetachedNeverMutates ==
    [][(/\ exLast'.op \in {"__init__", "regenerate_exclusion",
                           "update_global_mask"}
        /\ exs'[exLast'.ex].skip_ds_add)
          => /\ ds' = ds
             /\ exLast'.op /= "__init__" => exLast'.raised]_vars

\* regenerate_exclusion has raised on a detached exclusion, next to a
\* registered one that excludes a point
C16_Witness ==
    /\ exLast.op = "regenerate_exclusion"
    /\ exLast.raised
    /\ exs[exLast.ex].skip_ds_add
    /\ Attached /= {}
    /\ DOMAIN ds = {mask_name} \cup {exs[e].name : e \in Attached}
    /\ ~ds[mask_name]["edge"]

\* C17: after a generation the list composed_exclusions of a LaPD exclusion
\* holds the exclusions that generation built and no others: one circular
\* exclusion, and two dividers more when the cone is included.
C17_ComposedRecreated ==
    \A e \in 1..Len(exs) :
        exs[e].type = "lapd-XY" =>
            /\ exs[e].built \in {1, 3}
            /\ Len(exs[e].composed_exclusions) = exs[e].built

\* C18: no step turns a point that the global mask excludes into an allowed
\* one; a generation that adds exclusions to a composite leaves every point
\* excluded that the composite excluded; and in a composite each exclusion
\* added to the ones before it allows no point that they exclude.
C18_Monotone ==
    [][/\ \A p \in Points : ~ds[mask_name][p] => ~ds'[mask_name][p]
       /\ \A e \in 1..Len(exs) :
            (/\ exs[e].type = "lapd-XY"
             /\ Len(exs'[e].composed_exclusions)
                    > Len(exs[e].composed_exclusions))
              => \A p \in Points :
                    is_excluded(ds, exs[e], p) => is_excluded(ds', exs'[e], p)
       /\ \A e \in 1..Len(exs') :
            LET composed == exs'[e].composed_exclusions
            IN  (e > Len(exs) \/ composed /= exs[e].composed_exclusions)
                  => \A k \in 1..(Len(composed) - 1), p \in Points :
                        ~_combine_exclusions(SubSeq(composed, 1, k))[p]
                          => ~_combine_exclusions(SubSeq(composed, 1, k + 1))[p]]_vars

\* a LaPD exclusion with its cone and a small circular exclusion are both
\* merged: the mask excludes what either excludes, and the LaPD exclusion has
\* been generated again
C18_Witness ==
    /\ Len(exs) = 2
    /\ exs[1].type = "circular" /\ ~exs[1].skip_ds_add
    /\ exs[2].type = "lapd-XY" /\ exs[2].inputs.include_cone
    /\ Len(exs[2].composed_exclusions) > 3
    /\ pending = {}
    /\ ~ds[mask_name]["edge"]
    /\ ~ds[mask_name]["above_cone"]
    /\ ~ds[mask_name]["below_cone"]
    /\ ds[mask_name]["center"]
    /\ is_excluded(ds, exs[2], "above_cone")
    /\ ~is_excluded(ds, exs[2], "edge")

-----------------------------------------------------------------------------
(* Properties of the grid layers (SpecGrid).                                 *)

\* two fractions are the same number
FracEq(x, y) == x[1] * y[2] = y[1] * x[2]

\* one pair with min /= max per axis, one positive count per axis
ValidPerAxis(l) ==
    /\ Len(l.limits) = mspace_ndims
    /\ Len(l.npoints) = mspace_ndims
    /\ \A a \in 1..mspace_ndims :
          l.limits[a][1] /= l.limits[a][2] /\ l.npoints[a] > 0

\* the i-th of n values spaced linearly from lims[1] to lims[2]
SpacedValue(lims, n, i) ==
    IF n = 1 THEN <<lims[1], 1>>
    ELSE <<lims[1] * (n - 1) + (i - 1) * (lims[2] - lims[1]), n - 1>>

\* the points of a built layer, as a set
PointSet(l) == {l.points[idx] : idx \in DOMAIN l.points}

\* how many points a built layer has along an axis
AxisSize(l, a) == Cardinality({idx[a] : idx \in DOMAIN l.points})

\* C19: a GridLayer with one pair min /= max per axis and positive npoints is
\* constructed, its points are the Cartesian product of the linearly spaced
\* values of the axes with axis i along dimension i, and limits
\* [[0,10],[0,20]] with npoints [2,2] give (0,0), (0,20), (10,0), (10,20).
C19_GridAccepted ==
    (layer.type = "grid" /\ layer.state /= "new" /\ ValidPerAxis(layer)) =>
        /\ layer.state = "built"
        /\ DOMAIN layer.points =
              (1..layer.npoints[1]) \X (1..layer.npoints[2])
        /\ \A idx \in DOMAIN layer.points : \A a \in 1..mspace_ndims :
              FracEq(layer.points[idx][a],
                     SpacedValue(layer.limits[a], layer.npoints[a], idx[a]))
        /\ (layer.limits = <<<<0, 20>>, <<0, 40>>>> /\ layer.npoints = <<2, 2>>)
             => PointSet(layer) = {<<<<0, 1>>, <<0, 1>>>>, <<<<0, 1>>, <<40, 1>>>>,
                                   <<<<20, 1>>, <<0, 1>>>>, <<<<20, 1>>, <<40, 1>>>>}

\* C20: a GridLayer with limits [[5,5],[0,10]] is constructed and has one
\* point, at 5, along axis 0; a GridCNStepLayer whose derived limits are
\* equal on an axis is constructed and has one point on that axis.
C20_DegenerateAxis ==
    /\ (/\ layer.type = "grid" /\ layer.state /= "new"
        /\ layer.limits = <<<<10, 10>>, <<0, 20>>>>
        /\ Len(layer.npoints) = mspace_ndims
        /\ \A a \in 1..mspace_ndims : layer.npoints[a] > 0)
         => /\ layer.state = "built"
            /\ AxisSize(layer, 1) = 1
            /\ \A pt \in PointSet(layer) : FracEq(pt[1], <<10, 1>>)
    /\ (/\ layer.type = "grid_CNStep" /\ layer.state /= "new"
        /\ \A a \in 1..Len(layer.npoints) : layer.npoints[a] > 0)
         => \A a \in 1..mspace_ndims :
              (Repeat(layer.npoints)[a] - 1) * Repeat(layer.step_size)[a] = 0
                => layer.state = "built" /\ AxisSize(layer, a) = 1

\* the limits center -+ 0.5 * (npoints - 1) * step_size of a layer's arguments
CenteredLimits(l) ==
    [a \in 1..mspace_ndims |->
        <<l.center[a]
            - ((Repeat(l.npoints)[a] - 1) * Repeat(l.step_size)[a]) \div 2,
          l.center[a]
            + ((Repeat(l.npoints)[a] - 1) * Repeat(l.step_size)[a]) \div 2>>]

\* C21: a GridCNStepLayer with at least two points and a positive step on
\* every axis is constructed, and its point array is the point array of a
\* GridLayer with the same npoints and the limits center -+ 0.5 *
\* (npoints - 1) * step_size; center [0,0], npoints [2,2], step_size [1,1]
\* gives the points of the limits [[-0.5,0.5],[-0.5,0.5]].
C21_CNStepEqualsGrid ==
    (/\ layer.type = "grid_CNStep" /\ layer.state /= "new"
     /\ \A a \in 1..mspace_ndims :
           Repeat(layer.npoints)[a] >= 2 /\ Repeat(layer.step_size)[a] > 0)
      => /\ layer.state = "built"
         /\ _validate_limits(CenteredLimits(layer), "float64").error = ""
         /\ layer.points =
               _generate_point_matrix(CenteredLimits(layer),
                                      Repeat(layer.npoints))
         /\ (layer.center = <<0, 0>> /\ Repeat(layer.npoints) = <<2, 2>>
                /\ Repeat(layer.step_size) = <<2, 2>>)
              => PointSet(layer) = {<<<<x, 1>>, <<y, 1>>>> :
                                       x \in {-1, 1}, y \in {-1, 1}}

-----------------------------------------------------------------------------
(* Properties of the LaPD exclusion (SpecLapd).                              *)

\* the angle of a port name: e/east 0, t/top 90, w/west 180, b/bot/bottom 270
PortNameAngle(str) ==
    CASE str \in {<<"e">>, <<"e", "a", "s", "t">>} -> 0
      [] str \in {<<"t">>, <<"t", "o", "p">>} -> 90
      [] str \in {<<"w">>, <<"w", "e", "s", "t">>} -> 180
      [] str \in {<<"b">>, <<"b", "o", "t">>,
                  <<"b", "o", "t", "t", "o", "m">>} -> 270
      [] OTHER -> -1

\* the LaPD exclusion was given a port name, in any letter case
GivenPortName ==
    /\ lapd.state \in {"built", "raised"}
    /\ IsStr(lapd.args.port_location)
    /\ PortNameAngle(Lower(lapd.args.port_location[2])) >= 0

\* C22: a LaPDXYExclusion given a port name (e/east, t/top, w/west,
\* b/bot/bottom, in any letter case) ends as the one given the angle 0, 90,
\* 180 or 270 of that name and the same other arguments: it is built or
\* raises alike, and when built it stores that angle as its port location
\* and has the same inputs, composed exclusions and array; "E" stands for 0.
C22_PortNameIsAngle ==
    GivenPortName =>
        LET angle == PortNameAngle(Lower(lapd.args.port_location[2]))
            other == LaPDXYExclusion(
                         [lapd.args EXCEPT !.port_location = PyInt(angle)])
        IN  /\ lapd.state = other.state
            /\ lapd.error = other.error
            /\ lapd.state = "built" =>
                 /\ lapd.inputs = other.inputs
                 /\ lapd.composed_exclusions = other.composed_exclusions
                 /\ lapd.array = other.array
                 /\ lapd.args.include_cone =>
                      lapd.inputs.port_location = PyInt(angle)
            /\ (/\ lapd.args.port_location = PyStr(<<"E">>)
                /\ lapd.state = "built" /\ lapd.args.include_cone)
                 => lapd.composed_exclusions[2].port_location = PyInt(0)

\* the exclusion of the port "BoT" was built with its cone: the dividers
\* are placed for the angle 270
C22_Witness ==
    /\ lapd.state = "built"
    /\ lapd.args.port_location = PyStr(<<"B", "o", "T">>)
    /\ lapd.args.include_cone
    /\ lapd.inputs.port_location = PyInt(270)
    /\ Len(lapd.composed_exclusions) = 3
    /\ lapd.composed_exclusions[3].port_location = PyInt(270)

\* C23: with the cone included, the construction of a LaPDXYExclusion whose
\* cone angle is not a number strictly between 0 and 180 raises in the
\* validation, and no exclusion or array has been generated.
C23_ConeAngleRejected ==
    (/\ lapd.state \in {"built", "raised"}
     /\ lapd.args.include_cone
     /\ ~(/\ IsNumber(lapd.args.cone_full_angle)
          /\ 0 < lapd.args.cone_full_angle[2]
          /\ lapd.args.cone_full_angle[2] < 180))
      => /\ lapd.state = "raised"
         /\ lapd.composed_exclusions = <<>>
         /\ lapd.array = <<>>

-----------------------------------------------------------------------------
(* Properties of the run configuration (SpecManager).                        *)

\* the axes of the motion groups of a dict
AxisKeys(mg) == {<<key, a>> : key \in DOMAIN mg, a \in 1..2}

\* C24: after the validation of a run configuration no motor address is
\* that of more than one axis of the motion groups that remain.
C24_DistinctDriveIps ==
    manager.state = "validated" =>
        \A x, y \in AxisKeys(manager.motion_group) :
            x /= y => manager.motion_group[x[1]].ips[x[2]]
                        /= manager.motion_group[y[1]].ips[y[2]]

\* C25: the validation of the names drops every motion group whose name
\* another motion group has, keeps every other motion group unchanged under
\* its key and does not raise: the names that remain are pairwise distinct.
C25_DuplicateNamesDropped ==
    manager.state = "validated" =>
        LET given == manager.given
            named == manager.named
        IN  /\ DOMAIN named =
                 {key \in DOMAIN given :
                     \A k \in DOMAIN given \ {key} :
                         given[k].name /= given[key].name}
            /\ \A key \in DOMAIN named : named[key] = given[key]
            /\ \A j, k \in DOMAIN named :
                 j /= k => named[j].name /= named[k].name

\* of three motion groups the first two share a name: only the third, under
\* its key 2, is left, and one error was logged for the names
C25_Witness ==
    /\ manager.state = "validated"
    /\ DOMAIN manager.given = {0, 1, 2}
    /\ manager.given[0].name = manager.given[1].name
    /\ manager.given[2].name /= manager.given[0].name
    /\ DOMAIN manager.named = {2}
    /\ manager.named[2] = manager.given[2]
    /\ manager.errors >= 1

-----------------------------------------------------------------------------
(* Properties of the Axis (SpecAxis).                                        *)

\* the command has a unit of the motor, an argument, and a known pair
HasKnownPair ==
    /\ axis.motor_unit /= NoUnit
    /\ Len(axis.args) > 0
    /\ \E i \in DOMAIN conversion_pairs :
          conversion_pairs[i][1] = axis.motor_unit

\* the unit of the axis that is paired with a unit of the motor
PairedUnit(motor_unit) ==
    IF motor_unit.base \in {"steps", "rev"} THEN Unit("units", motor_unit.per_s)
    ELSE NoUnit

\* how many units of the motor one unit of the axis is
MotorPerAxis(motor_unit) ==
    IF motor_unit.base = "steps"
    THEN <<axis.steps_per_rev, axis.units_per_rev>>
    ELSE <<1, axis.units_per_rev>>

\* C26: Axis.send_command forwards the command to the motor; with a known
\* pair for the command's unit the first argument is forwarded scaled into
\* the unit of the motor, otherwise the arguments are forwarded as given; a
\* reply in a unit with a known pair is returned in the unit of the axis,
\* any other reply is returned as received.
C26_ArgumentScaled ==
    (axis.op = "send_command" /\ axis.state /= "new") =>
        /\ axis.sent
        /\ HasKnownPair =>
             /\ Len(axis.forwarded) = Len(axis.args)
             /\ FracEq(axis.forwarded[1],
                       Scaled(axis.args[1], MotorPerAxis(axis.motor_unit)))
        /\ ~HasKnownPair => axis.forwarded = axis.args
        /\ IF \E i \in DOMAIN conversion_pairs :
                 conversion_pairs[i][1] = axis.reply.unit
           THEN /\ axis.rtn.unit = PairedUnit(axis.reply.unit)
                /\ FracEq(Scaled(axis.rtn.value,
                                 MotorPerAxis(axis.reply.unit)),
                          axis.reply.value)
           ELSE axis.rtn = axis.reply

\* C27: every entry of the equivalence table of an Axis converts by a
\* nonzero factor one way and by its inverse the other way, for positions,
\* rates and accelerations alike; a quantity that has been converted with
\* the table and is back in its first unit has its first value, so steps to
\* axis units and back to steps returns the position.
C27_RoundTrip ==
    axis.op = "to" =>
        /\ \A i \in DOMAIN equivalencies(axis) :
              LET e == equivalencies(axis)[i]
              IN  /\ e.forward[1] /= 0 /\ e.forward[2] /= 0
                  /\ e.a.per_s = e.b.per_s
                  /\ \A x \in AxisValues :
                        /\ FracEq(Scaled(Scaled(x, e.forward), e.backward), x)
                        /\ FracEq(Scaled(Scaled(x, e.backward), e.forward), x)
        /\ (axis.state = "done" /\ axis.q.unit = axis.origin.unit) =>
              FracEq(axis.q.value, axis.origin.value)
        /\ (/\ axis.state = "done" /\ axis.hops = 1
            /\ axis.origin.unit = Unit("steps", 0)
            /\ axis.q.unit = Unit("units", 0)) =>
              FracEq(axis.q.value,
                     Scaled(axis.origin.value,
                            <<axis.units_per_rev, axis.steps_per_rev>>))

\* a position of 7 steps went to axis units and back to steps, by the
\* factors 5 / 200 and 200 / 5
C27_Witness ==
    /\ axis.op = "to"
    /\ axis.state = "done"
    /\ axis.hops = 2
    /\ axis.steps_per_rev = 200
    /\ axis.units_per_rev = 5
    /\ axis.origin = [unit |-> Unit("steps", 0), value |-> <<7, 1>>]
    /\ axis.q = [unit |-> Unit("steps", 0), value |-> <<7000, 1000>>]

-----------------------------------------------------------------------------
(* Properties of the coordinate transform (SpecTransform).                   *)

\* the point in the coordinates of the derivation: from the pivot along the
\* line to the centre of the chamber, and across it
FromPivot ==
    LET points == Flipped(transform.inputs.mspace_polarity, transform.point)
    IN  <<RAdd(points[1], RInt(transform.inputs.pivot_to_center)), points[2]>>

\* the point lies on the side of the pivot where the chamber is
OnChamberSide == FromPivot[1][1] > 0

\* pivot_to_drive * |point - pivot| + probe_axis_offset * y >= 0: the shaft
\* is not swung below the angle whose sine is
\* -pivot_to_drive / probe_axis_offset
WithinSwing ==
    LET distance == RSqrt(RAdd(RMul(FromPivot[1], FromPivot[1]),
                               RMul(FromPivot[2], FromPivot[2])))
    IN  RAdd(RMul(RInt(transform.inputs.pivot_to_drive), distance),
             RMul(RInt(transform.inputs.probe_axis_offset),
                  FromPivot[2]))[1] >= 0

\* C28 as claimed: for all valid parameters and every point that is not the
\* pivot, the point converted to the drive and back is the point.
C28_RoundTripEverywhere ==
    (transform.state = "back" /\ FromPivot /= <<RInt(0), RInt(0)>>) =>
        transform.back = transform.point

\* C28 as amended: for pivot_to_drive > 0 and every point on the chamber
\* side of the pivot that keeps pivot_to_drive * |point - pivot| +
\* probe_axis_offset * y >= 0 (y across the shaft, after the polarity), the
\* point converted to the drive and back is the point.
C28_RoundTrip ==
    (/\ transform.state = "back"
     /\ transform.inputs.pivot_to_drive > 0
     /\ OnChamberSide
     /\ WithinSwing) =>
        transform.back = transform.point

\* the point (1, 3) of a transform with pivot_to_center 5, pivot_to_drive
\* 15, probe_axis_offset 7 and the polarity (-1, 1) came back from the drive
\* coordinates (0, 13)
C28_Witness ==
    /\ transform.state = "back"
    /\ transform.inputs.pivot_to_center = 5
    /\ transform.inputs.pivot_to_drive = 15
    /\ transform.inputs.probe_axis_offset = 7
    /\ transform.inputs.mspace_polarity = <<-1, 1>>
    /\ transform.inputs.drive_polarity = <<1, -1>>
    /\ transform.point = <<RInt(1), RInt(3)>>
    /\ OnChamberSide
    /\ WithinSwing
    /\ transform.drive = <<RInt(0), RInt(13)>>
    /\ transform.back = transform.point

-----------------------------------------------------------------------------
(* Properties of the status notification (SpecStatus).                       *)

\* C29: whenever update_status invokes a status_changed handler, Motor.status
\* already holds the new values: every handler of an update that emitted
\* reads the old status merged with the supplied values.
C29_HandlerSeesNewStatus ==
    (lastUpdate.called /\ lastUpdate.emits = 1) =>
        /\ Len(lastUpdate.seen) = 1
        /\ \A i \in 1..Len(lastUpdate.seen) :
               lastUpdate.seen[i] = Merge(lastUpdate.old, lastUpdate.values)

-----------------------------------------------------------------------------
(* Properties of the command table (SpecCommand).                            *)

\* C30: every command name of Motor._commands can be issued: a call of
\* send_command with a key of the table does not end in a lookup error, and
\* a call that ends in a lookup error has sent nothing.
C30_TableCommandsSend ==
    /\ (command.state /= "new" /\ command.command \in DOMAIN _commands) =>
           command.error /= "KeyError"
    /\ command.error = "KeyError" => command.sent = <<>>

=============================================================================
